---- MODULE Spec2Model ----
(***************************************************************************)
(* Verification model of the Tidal music skill back end:                   *)
(*   - TidalApiClient.requestWithRetry   (lambda/clients/tidalApiClient.js)*)
(*   - CacheService                      (lambda/services/cacheService.js) *)
(*   - TokenPersistenceService           (lambda/services/cacheService.js) *)
(*   - TidalService._executeWithTokenRefresh and the catalog reads         *)
(*                                       (lambda/services/tidalService.js) *)
(*   - PlaybackPersistenceService        (lambda/services/tidalService.js) *)
(*   - AudioPlayerEventHandler, PlayMusicIntentHandler (unnamed/part_004)  *)
(* Each component has its own specifications (SpecRetry and SpecRetryLive;  *)
(* SpecCache and SpecMemo; SpecRefresh and SpecInvalidate; SpecPlayback    *)
(* and SpecStore) over the shared variables; the variables of the other    *)
(* components stay at their initial values.                                *)
(***************************************************************************)
EXTENDS Integers, Sequences, FiniteSets, TLC

VARIABLES
  rq,            \* one requestWithRetry call: position, loop counter, errors, waits
  now,           \* Date.now() as seen by the cache, in ticks
  enabled,       \* CacheService.enabled (cache.enabled of the configuration)
  caches,        \* CacheService.caches: namespace -> entries in insertion order
  calls,         \* getOrSet calls suspended at "await fetchFn()"
  lastOp,        \* the last cache operation and what it returned
  tokenTable,    \* the TidalTokens table: items keyed by (userId, accessToken)
  tokenCache,    \* TokenPersistenceService.tokenCache: accessToken -> refreshToken
  rf,            \* one _executeWithTokenRefresh call
  playbackTable, \* the TidalPlaybackState table: items keyed by (userId, timestamp)
  pbClock,       \* Date.now() as seen by the playback service, in milliseconds
  pbEv,          \* the last handled request and the response built for it
  catalog        \* the TidalService in use ("current" or "earlier") and the number
                 \* of tracks of the album, playlist or artist the user asks for

vars == <<rq, now, enabled, caches, calls, lastOp, tokenTable, tokenCache, rf,
          playbackTable, pbClock, pbEv, catalog>>

retryVars    == <<rq>>
cacheVars    == <<now, enabled, caches, calls, lastOp>>
refreshVars  == <<tokenTable, tokenCache, rf>>
playbackVars == <<playbackTable, pbClock, pbEv, catalog>>

(***************************************************************************)
(* Resilient client: TidalApiClient.requestWithRetry                       *)
(***************************************************************************)

\* Largest `retries` argument a caller passes (config default 3, token calls 5).
RetriesBound == 4

\* retry.baseDelayMs and retry.maxDelayMs of the configuration, in milliseconds.
BaseDelayMs == 1000
MaxDelayMs == 10000

\* What one client.request(config) can do: 200 resolves, a status rejects with
\* error.response.status set, 0 stands for a rejection without a response
\* (network error or timeout).
SendOutcomes == {200, 400, 401, 403, 404, 429, 503, 0}

NoError == [kind |-> "none", n |-> -1, status |-> -1]

\* The error object rejected by the n-th send.
SendError(n, status) ==
  [kind |-> IF status = 0 THEN "network" ELSE "http", n |-> n, status |-> status]

\* "lastError.message" with lastError === null.
NullDeref == [kind |-> "TypeError", n |-> -1, status |-> -1]

\* A classification that forgets 404.
NonRetryableWithout404(status) == status \in {400, 401, 403}

\* error.response && [400, 401, 403, 404].includes(error.response.status)
NonRetryable(status) == status \in {400, 401, 403, 404}

Pow2(n) == IF n = 0 THEN 1 ELSE IF n = 1 THEN 2 ELSE IF n = 2 THEN 4
           ELSE IF n = 3 THEN 8 ELSE IF n = 4 THEN 16 ELSE 32

Min(a, b) == IF a < b THEN a ELSE b
Max(a, b) == IF a > b THEN a ELSE b

\* The values of retry.maxDelayMs (RETRY_MAX_DELAY_MS of the environment) the
\* client is constructed with: the default, and one that the doubling passes
\* within the first attempts.
MaxDelayMsSettings == {MaxDelayMs, 1500}

\* A backoff that is never capped.
BaseDelayUncapped(attempt, maxDelayMs) == Pow2(attempt) * BaseDelayMs

\* Math.min(this.maxDelayMs, Math.pow(2, attempt) * this.baseDelayMs)
BaseDelay(attempt, maxDelayMs) == Min(maxDelayMs, Pow2(attempt) * BaseDelayMs)

\* A jitter of up to the whole base delay.
JittersWide(baseDelay) == {0, baseDelay \div 10, baseDelay}

\* Math.random() * (baseDelay * 0.2): Math.random() is in [0, 1), so the jitter is
\* in [0, 0.2 * baseDelay); three representatives, whole milliseconds.
Jitters(baseDelay) == {0, baseDelay \div 10, (baseDelay \div 5) - 1}

\* Math.pow(2, attempt) * 1000 of the earlier variant of the client.
EarlierDelay(attempt) == Pow2(attempt) * 1000

\* The two variants of requestWithRetry in the repository.
Variants == {"current", "earlier"}

\* A catch block that keeps the first error of the call.
CatchKeepsFirst(lastError, error) == IF lastError = NoError THEN error ELSE lastError

\* catch (error) { lastError = error; ... }
Catch(lastError, error) == error

\* A loop test that admits one iteration more.
LoopTestInclusive(attempt, retries) == attempt <= retries

\* for (let attempt = 0; attempt < retries; attempt++)
LoopTest(attempt, retries) == attempt < retries

RqIdle ==
  [pc |-> "idle", variant |-> "current", retries |-> 0, attempt |-> 0, attempts |-> 0,
   lastError |-> NoError, sent |-> <<>>, waits |-> <<>>, result |-> NoError,
   maxDelayMs |-> MaxDelayMs]

\* Entry of requestWithRetry up to the first evaluation of "attempt < retries".
\* With retries = 0 the loop body never runs and the code after the loop reads
\* lastError.message of null.
\* The earlier variant has no such read: it throws lastError, which is null.
RqStart(retries, variant) ==
  /\ rq.pc = "idle"
  /\ rq' = IF LoopTest(0, retries)
             THEN [RqIdle EXCEPT !.pc = "sending", !.retries = retries,
                                 !.variant = variant,
                                 !.maxDelayMs = rq.maxDelayMs]
             ELSE [RqIdle EXCEPT !.pc = "thrown", !.retries = retries,
                                 !.variant = variant,
                                 !.maxDelayMs = rq.maxDelayMs,
                                 !.result = IF variant = "current" THEN NullDeref
                                            ELSE NoError]
  /\ UNCHANGED <<cacheVars, refreshVars, playbackVars>>

\* One loop iteration: "attempts++", the send, and on rejection the catch block
\* up to "await new Promise(resolve => setTimeout(resolve, delayMs))".
RqSend(outcome) ==
  /\ rq.pc = "sending"
  /\ LET error == SendError(rq.attempt, outcome)
         err == Catch(rq.lastError, error)
         r1  == [rq EXCEPT !.attempts = @ + 1, !.sent = Append(@, outcome)]
     IN IF outcome = 200
          THEN rq' = [r1 EXCEPT !.pc = "returned"]
          ELSE IF outcome # 0 /\ NonRetryable(outcome)
            THEN rq' = [r1 EXCEPT !.pc = "thrown", !.lastError = err, !.result = err]
            ELSE IF rq.variant = "earlier"
              THEN rq' = [r1 EXCEPT !.pc = "waiting", !.lastError = err,
                                    !.waits = Append(@, EarlierDelay(rq.attempt))]
            ELSE IF rq.attempt = rq.retries - 1
              THEN rq' = [r1 EXCEPT !.pc = "thrown", !.lastError = err, !.result = err]
              ELSE LET baseDelay == BaseDelay(rq.attempt, rq.maxDelayMs)
                   IN \E jitter \in Jitters(baseDelay) :
                        rq' = [r1 EXCEPT !.pc = "waiting", !.lastError = err,
                                         !.waits = Append(@, baseDelay + jitter)]
  /\ UNCHANGED <<cacheVars, refreshVars, playbackVars>>

\* The timer fires: "attempt++" and the loop test "attempt < retries". The current
\* variant only waits when attempt < retries - 1, so its test holds; the earlier
\* variant also waits after its last attempt and then leaves the loop and throws
\* lastError.
RqWake ==
  /\ rq.pc = "waiting"
  /\ rq' = IF LoopTest(rq.attempt + 1, rq.retries)
             THEN [rq EXCEPT !.pc = "sending", !.attempt = @ + 1]
             ELSE [rq EXCEPT !.pc = "thrown", !.attempt = @ + 1,
                             !.result = rq.lastError]
  /\ UNCHANGED <<cacheVars, refreshVars, playbackVars>>

\* The caller has its answer; the client is ready for the next call.
RqDone ==
  /\ rq.pc \in {"returned", "thrown"}
  /\ rq' = [RqIdle EXCEPT !.maxDelayMs = rq.maxDelayMs]
  /\ UNCHANGED <<cacheVars, refreshVars, playbackVars>>

RetryNext ==
  \/ \E r \in 0..RetriesBound, v \in Variants : RqStart(r, v)
  \/ \E o \in SendOutcomes : RqSend(o)
  \/ RqWake
  \/ RqDone

(***************************************************************************)
(* TTL cache: CacheEntry and CacheService                                  *)
(***************************************************************************)

\* this.maxSize: the configured maximum number of entries of one namespace.
MaxSize == 2

\* Last tick of the clock.
MaxTime == 2

Namespaces == {"tidal", "other"}

\* The keys used per namespace. "" is what makeKey gives for no argument or for
\* a single null or undefined argument.
KeysOf(ns) == IF ns = "tidal" THEN {"", "a", "b"} ELSE {"a"}

\* Stored values; fetchFn may also resolve to undefined or to null, or reject.
Values == {"v1", "v2"}
Undefined == "undefined"
Null == "null"
FetchError == "fetchError"

\* ttl arguments, in ticks (one tick is 1000 ms, the unit of ttl).
TTLs == {0, 1}

\* this.defaultTTL, the ttl of a getOrSet call that names none.
DefaultTTL == 1

\* new CacheEntry(value, ttl) at time t. (hits and lastAccess only feed the logs.)
CacheEntry(key, value, ttl, t) ==
  [key |-> key, value |-> value, createdAt |-> t, expiresAt |-> t + ttl]

\* An entry that is dropped only by the periodic cleanup.
isExpiredNever(entry, t) == FALSE

\* CacheEntry.isExpired: Date.now() > this.expiresAt
isExpired(entry, t) == t > entry.expiresAt

\* Position of key in a Map kept as the sequence of its entries, 0 when absent.
IndexOf(cache, key) ==
  IF \E i \in 1..Len(cache) : cache[i].key = key
    THEN CHOOSE i \in 1..Len(cache) : cache[i].key = key
    ELSE 0

\* Map.prototype.delete(key)
MapDelete(cache, key) ==
  LET i == IndexOf(cache, key)
  IN IF i = 0 THEN cache
     ELSE [j \in 1..(Len(cache) - 1) |-> IF j < i THEN cache[j] ELSE cache[j + 1]]

\* A store that appends every entry, as a list does.
MapSetAppend(cache, entry) == Append(cache, entry)

\* Map.prototype.set(key, entry): a present key keeps its place in the iteration
\* order, a new key goes last.
MapSet(cache, entry) ==
  LET i == IndexOf(cache, entry.key)
  IN IF i = 0 THEN Append(cache, entry) ELSE [cache EXCEPT ![i] = entry]

\* The loop of _evictOne: the first entry, in iteration order, whose createdAt is
\* not above any other's ("entry.createdAt < oldestEntry.createdAt" is strict).
OldestIndex(cache) ==
  CHOOSE i \in 1..Len(cache) :
    /\ \A j \in 1..Len(cache) : cache[i].createdAt <= cache[j].createdAt
    /\ \A j \in 1..(i - 1) : cache[j].createdAt > cache[i].createdAt

\* "if (oldestKey)": the key found is used as a condition, and "" is falsy.
Truthy(key) == key # ""

\* CacheService._evictOne on one namespace's Map.
EvictOne(cache) ==
  IF Len(cache) < MaxSize THEN cache
  ELSE IF Len(cache) = 0 THEN cache
  ELSE LET k == cache[OldestIndex(cache)].key
       IN IF Truthy(k) THEN MapDelete(cache, k) ELSE cache

\* CacheService.set on one namespace's Map, cache enabled.
SetIn(cache, key, value, ttl, t) ==
  LET c1 == IF Len(cache) >= MaxSize THEN EvictOne(cache) ELSE cache
  IN MapSet(c1, CacheEntry(key, value, ttl, t))

\* CacheService.get on one namespace's Map, cache enabled: the value returned and
\* the Map afterwards (an expired entry is deleted by the read).
GetIn(cache, key, t) ==
  LET i == IndexOf(cache, key)
  IN IF i = 0 THEN [value |-> Undefined, cache |-> cache]
     ELSE IF isExpired(cache[i], t)
       THEN [value |-> Undefined, cache |-> MapDelete(cache, key)]
       ELSE [value |-> cache[i].value, cache |-> cache]

\* A sweep that also takes the entries whose expiresAt is the present instant.
SweepInclusive(cache, t) ==
  LET keep == {i \in 1..Len(cache) : t < cache[i].expiresAt}
      Nth[n \in 0..Len(cache)] ==
        IF n = 0 THEN 0
        ELSE CHOOSE i \in keep : Cardinality({j \in keep : j <= i}) = n
  IN [n \in 1..Cardinality(keep) |-> cache[Nth[n]]]

\* The expired entries of one namespace's Map removed, as cleanup does.
Sweep(cache, t) ==
  LET keep == {i \in 1..Len(cache) : ~isExpired(cache[i], t)}
      Nth[n \in 0..Len(cache)] ==
        IF n = 0 THEN 0
        ELSE CHOOSE i \in keep : Cardinality({j \in keep : j <= i}) = n
  IN [n \in 1..Cardinality(keep) |-> cache[Nth[n]]]

NoCall == [pc |-> "idle", ns |-> "", key |-> "", ttl |-> 0]

\* The getOrSet calls that can be in flight at once.
Callers == {1}

\* What the last operation was and what it returned or threw. ns and key are kept
\* for getOrSet; note records what the operation met: for get, whether the entry
\* it found had its expiresAt in the past; for a settled getOrSet, whether any
\* other operation ran while it awaited fetchFn.
OpAt(op, ns, key, result, note) ==
  [op |-> op, ns |-> ns, key |-> key, result |-> result, note |-> note]

Op(op, result) == OpAt(op, "", "", result, "")

\* What get meets under key at time t.
Met(cache, key, t) ==
  IF IndexOf(cache, key) = 0 THEN "absent"
  ELSE IF t > cache[IndexOf(cache, key)].expiresAt THEN "past" ELSE "live"

\* The clock moves between operations.
Tick ==
  /\ now < MaxTime
  /\ now' = now + 1
  /\ lastOp' = Op("tick", "")
  /\ UNCHANGED <<enabled, caches, calls, retryVars, refreshVars, playbackVars>>

\* CacheService.set(namespace, key, value, ttl)
Set(ns, key, value, ttl) ==
  /\ caches' = IF enabled
                 THEN [caches EXCEPT ![ns] = SetIn(@, key, value, ttl, now)]
                 ELSE caches
  /\ lastOp' = Op("set", value)
  /\ UNCHANGED <<now, enabled, calls, retryVars, refreshVars, playbackVars>>

\* CacheService.get(namespace, key)
Get(ns, key) ==
  /\ LET g == GetIn(caches[ns], key, now)
     IN IF enabled
          THEN /\ caches' = [caches EXCEPT ![ns] = g.cache]
               /\ lastOp' = OpAt("get", "", "", g.value, Met(caches[ns], key, now))
          ELSE /\ caches' = caches
               /\ lastOp' = Op("get", Undefined)
  /\ UNCHANGED <<now, enabled, calls, retryVars, refreshVars, playbackVars>>

\* CacheService.has(namespace, key)
Has(ns, key) ==
  /\ LET g == GetIn(caches[ns], key, now)
     IN IF enabled
          THEN /\ caches' = [caches EXCEPT ![ns] = g.cache]
               /\ lastOp' = Op("has", IF IndexOf(g.cache, key) # 0 THEN "true"
                                                                        ELSE "false")
          ELSE /\ caches' = caches
               /\ lastOp' = Op("has", "false")
  /\ UNCHANGED <<now, enabled, calls, retryVars, refreshVars, playbackVars>>

\* CacheService.delete(namespace, key)
Delete(ns, key) ==
  /\ caches' = IF enabled THEN [caches EXCEPT ![ns] = MapDelete(@, key)] ELSE caches
  /\ lastOp' = Op("delete",
                  IF enabled /\ IndexOf(caches[ns], key) # 0 THEN "true" ELSE "false")
  /\ UNCHANGED <<now, enabled, calls, retryVars, refreshVars, playbackVars>>

\* CacheService.clear(namespace) with a namespace
Clear(ns) ==
  /\ caches' = IF enabled THEN [caches EXCEPT ![ns] = <<>>] ELSE caches
  /\ lastOp' = Op("clear", "")
  /\ UNCHANGED <<now, enabled, calls, retryVars, refreshVars, playbackVars>>

\* CacheService.clear() without a namespace
ClearAll ==
  /\ caches' = IF enabled THEN [ns \in Namespaces |-> <<>>] ELSE caches
  /\ lastOp' = Op("clear", "")
  /\ UNCHANGED <<now, enabled, calls, retryVars, refreshVars, playbackVars>>

\* "removed" of cleanup: one for every cache.delete(key) of its loops.
RECURSIVE Removed(_, _, _)
Removed(before, after, nss) ==
  IF nss = {} THEN 0
  ELSE LET ns == CHOOSE n \in nss : TRUE
       IN (Len(before[ns]) - Len(after[ns])) + Removed(before, after, nss \ {ns})

\* CacheService.cleanup(), run by the interval timer or by the maintenance handler;
\* it returns removed, and 0 when the cache is disabled.
Cleanup ==
  /\ caches' = IF enabled THEN [ns \in Namespaces |-> Sweep(caches[ns], now)]
               ELSE caches
  /\ lastOp' = Op("cleanup", ToString(Removed(caches, caches', Namespaces)))
  /\ UNCHANGED <<now, enabled, calls, retryVars, refreshVars, playbackVars>>

\* CacheService.getOrSet up to "await fetchFn()": a disabled cache calls fetchFn at
\* once; otherwise a hit returns the cached value and a miss calls fetchFn.
GetOrSetStart(c, ns, key, ttl) ==
  /\ calls[c].pc = "idle"
  /\ LET g == GetIn(caches[ns], key, now)
     IN IF ~enabled
          THEN /\ caches' = caches
               /\ calls' = [calls EXCEPT ![c] = [pc |-> "fetching", ns |-> ns,
                                                 key |-> key, ttl |-> ttl]]
               /\ lastOp' = OpAt("fetch", ns, key, "", "")
          ELSE IF g.value # Undefined
            THEN /\ caches' = [caches EXCEPT ![ns] = g.cache]
                 /\ calls' = calls
                 /\ lastOp' = OpAt("getOrSet", ns, key, g.value, "hit")
            ELSE /\ caches' = [caches EXCEPT ![ns] = g.cache]
                 /\ calls' = [calls EXCEPT ![c] = [pc |-> "fetching", ns |-> ns,
                                                   key |-> key, ttl |-> ttl]]
                 /\ lastOp' = OpAt("fetch", ns, key, "", "")
  /\ UNCHANGED <<now, enabled, retryVars, refreshVars, playbackVars>>

\* What getOrSet stores once fetchFn has resolved to value.
StoreFetchedAlways(cache, key, value, ttl, t) == SetIn(cache, key, value, ttl, t)

\* "if (value !== undefined && value !== null) this.set(namespace, key, value, ttl)"
StoreFetched(cache, key, value, ttl, t) ==
  IF value # Undefined /\ value # Null THEN SetIn(cache, key, value, ttl, t) ELSE cache

\* fetchFn settles: getOrSet stores and returns the value, or rethrows the error.
GetOrSetFinish(c, outcome) ==
  /\ calls[c].pc = "fetching"
  /\ LET ns == calls[c].ns
         key == calls[c].key
     IN /\ caches' = IF enabled /\ outcome # FetchError
                       THEN [caches EXCEPT ![ns] =
                               StoreFetched(@, key, outcome, calls[c].ttl, now)]
                       ELSE caches
        /\ lastOp' = OpAt(IF outcome = FetchError THEN "getOrSetThrow" ELSE "getOrSet",
                          ns, key, outcome,
                          IF lastOp.op = "fetch" THEN "quiet" ELSE "overlapped")
  /\ calls' = [calls EXCEPT ![c] = NoCall]
  /\ UNCHANGED <<now, enabled, retryVars, refreshVars, playbackVars>>

\* The error thrown by a statement inside the try block of a cache method.
CacheError == "cacheError"

\* The methods whose whole body past the "enabled" test is one try block.
GuardedMethods == {"set", "get", "has", "delete", "clear", "cleanup"}

\* Catch blocks that throw what they caught.
CatchValueRethrown(op, value) == CacheError

\* What the catch block of a method returns: set returns value, get undefined,
\* has and delete false, clear nothing, cleanup 0.
CatchValue(op, value) ==
  CASE op = "set" -> value
    [] op = "get" -> Undefined
    [] op \in {"has", "delete"} -> "false"
    [] op = "clear" -> ""
    [] op = "cleanup" -> "0"

\* The Maps as the try block of a method leaves them when it runs to its end.
BodyDone(op, ns, key, value, ttl) ==
  CASE op = "set" -> [caches EXCEPT ![ns] = SetIn(@, key, value, ttl, now)]
    [] op \in {"get", "has"} -> [caches EXCEPT ![ns] = GetIn(@, key, now).cache]
    [] op = "delete" -> [caches EXCEPT ![ns] = MapDelete(@, key)]
    [] op = "clear" -> [caches EXCEPT ![ns] = <<>>]
    [] op = "cleanup" -> [n \in Namespaces |-> Sweep(caches[n], now)]

\* A call of a guarded method, cache enabled, in which a statement of the try
\* block throws: before the Map was touched, or (done) after the last change to
\* it, while the statistics are updated. An input the method does not read is
\* held at one value.
Throws(op, ns, key, value, ttl, done) ==
  /\ enabled
  /\ op \in GuardedMethods
  /\ op = "cleanup" => ns = "tidal"
  /\ op \in {"clear", "cleanup"} => key = "a"
  /\ caches' = IF done THEN BodyDone(op, ns, key, value, ttl) ELSE caches
  /\ lastOp' = OpAt(op, ns, key, CatchValue(op, value), "caught")
  /\ UNCHANGED <<now, enabled, calls, retryVars, refreshVars, playbackVars>>

\* getOrSet, cache enabled, whose "this.get(namespace, key)" throws inside get:
\* what get returns is tested as usual, and what get throws leaves through the
\* catch block of getOrSet.
GetOrSetGetThrows(c, ns, key, ttl, done) ==
  /\ enabled
  /\ calls[c].pc = "idle"
  /\ caches' = IF done THEN BodyDone("get", ns, key, "", ttl) ELSE caches
  /\ LET cachedValue == CatchValue("get", "")
     IN IF cachedValue = CacheError
          THEN /\ calls' = calls
               /\ lastOp' = OpAt("getOrSetThrow", ns, key, CacheError, "caught")
          ELSE IF cachedValue # Undefined
            THEN /\ calls' = calls
                 /\ lastOp' = OpAt("getOrSet", ns, key, cachedValue, "caught")
            ELSE /\ calls' = [calls EXCEPT ![c] = [pc |-> "fetching", ns |-> ns,
                                                   key |-> key, ttl |-> ttl]]
                 /\ lastOp' = OpAt("fetch", ns, key, "", "caught")
  /\ UNCHANGED <<now, enabled, retryVars, refreshVars, playbackVars>>

\* fetchFn resolves to a value that getOrSet stores, and "this.set(...)" throws
\* inside set: getOrSet returns value whatever set returns, and what set throws
\* leaves through the catch block of getOrSet.
GetOrSetSetThrows(c, value, done) ==
  /\ enabled
  /\ calls[c].pc = "fetching"
  /\ value \in Values
  /\ LET ns == calls[c].ns
         key == calls[c].key
     IN /\ caches' = IF done THEN BodyDone("set", ns, key, value, calls[c].ttl)
                             ELSE caches
        /\ lastOp' = IF CatchValue("set", value) = CacheError
                        THEN OpAt("getOrSetThrow", ns, key, CacheError, "caught")
                        ELSE OpAt("getOrSet", ns, key, value, "caught")
  /\ calls' = [calls EXCEPT ![c] = NoCall]
  /\ UNCHANGED <<now, enabled, retryVars, refreshVars, playbackVars>>

\* The cache with statements of its try blocks failing.
FaultNext ==
  \/ Tick
  \/ \E key \in {"a", "b"}, ttl \in TTLs : Set("tidal", key, "v1", ttl)
  \/ \E op \in GuardedMethods, key \in {"a", "b"}, done \in BOOLEAN :
       Throws(op, "tidal", key, "v2", DefaultTTL, done)
  \/ \E c \in Callers, key \in {"a", "b"} : GetOrSetStart(c, "tidal", key, DefaultTTL)
  \/ \E c \in Callers, key \in {"a", "b"}, done \in BOOLEAN :
       GetOrSetGetThrows(c, "tidal", key, DefaultTTL, done)
  \/ \E c \in Callers, o \in Values \cup {Undefined, Null, FetchError} :
       GetOrSetFinish(c, o)
  \/ \E c \in Callers, o \in Values, done \in BOOLEAN : GetOrSetSetThrows(c, o, done)

\* Two callers of getOrSet, for calls that overlap.
OverlapCallers == {1, 2}

\* getOrSet calls of two callers and nothing else: they interleave at "await
\* fetchFn()".
OverlapNext ==
  \/ Tick
  \/ \E c \in OverlapCallers, key \in {"a", "b"} :
       GetOrSetStart(c, "tidal", key, DefaultTTL)
  \/ \E c \in OverlapCallers, o \in Values \cup {Undefined, Null, FetchError} :
       GetOrSetFinish(c, o)

\* The synchronous operations of the cache. getOrSet acts on the Maps only through
\* get (at its start) and set (when fetchFn has resolved), both of which are here;
\* SpecMemo follows getOrSet calls through their await.
CacheNext ==
  \/ Tick
  \/ \E ns \in Namespaces : \E key \in KeysOf(ns), ttl \in TTLs :
       Set(ns, key, "v1", ttl)
  \/ \E ns \in Namespaces : \E key \in KeysOf(ns) : Get(ns, key)
  \/ \E ns \in Namespaces : \E key \in KeysOf(ns) : Has(ns, key)
  \/ \E ns \in Namespaces : \E key \in KeysOf(ns) : Delete(ns, key)
  \/ \E ns \in Namespaces : Clear(ns)
  \/ ClearAll
  \/ Cleanup

\* getOrSet calls, and what can run while one of them awaits fetchFn.
MemoNext ==
  \/ Tick
  \/ \E key \in {"a", "b"}, ttl \in TTLs : Set("tidal", key, "v1", ttl)
  \/ \E key \in {"a", "b"} : Delete("tidal", key)
  \/ Cleanup
  \/ \E c \in Callers, key \in {"a", "b"} : GetOrSetStart(c, "tidal", key, DefaultTTL)
  \/ \E c \in Callers, o \in Values \cup {Undefined, Null, FetchError} :
       GetOrSetFinish(c, o)

(***************************************************************************)
(* Token store (TokenPersistenceService) and refresh coordinator           *)
(* (TidalService._executeWithTokenRefresh)                                 *)
(***************************************************************************)

\* userId = null and a missing (null / undefined) token.
NoUser == ""
NoToken == 0

Users == {"u1"}

\* The userId under which a refresh without userId saves the new pair.
Anonymous == "anonymous"

\* Access tokens sessions start with; the refresh token issued with access token
\* a is 100 + a.
AccessTokens == {1, 2}

\* Successful token exchanges in one behaviour.
MaxRefreshes == 2

\* response.data of the k-th successful POST /oauth2/token.
NewTokens(k) == [access_token |-> 10 + k, refresh_token |-> 110 + k]

NoTokens == [access_token |-> NoToken, refresh_token |-> NoToken]

\* tokenItem of saveTokens, without its timestamps.
TokenItem(userId, accessToken, refreshToken) ==
  [userId |-> userId, accessToken |-> accessToken, refreshToken |-> refreshToken]

\* Items the table can hold when the skill starts.
LinkedItems ==
  {TokenItem("u1", 1, 101), TokenItem("u1", 2, 102), TokenItem(Anonymous, 1, 101)}

\* DynamoDbService.putItem: the item replaces the one with its key
\* (userId, accessToken).
PutItem(table, item) ==
  {i \in table : ~(i.userId = item.userId /\ i.accessToken = item.accessToken)}
    \cup {item}

\* DynamoDbService.deleteItem({userId, accessToken})
DeleteItem(table, userId, accessToken) ==
  {i \in table : ~(i.userId = userId /\ i.accessToken = accessToken)}

\* The query of getTokensByUserId: the partition of userId.
QueryByUserId(table, userId) == {i \in table : i.userId = userId}

\* The order of the sort key accessToken, an attribute of type S: DynamoDB
\* compares strings byte by byte, so the tokens compare as their texts do, by
\* their digits from the left ("11" sorts before "2"), a proper prefix first.
SortKeyLeq(a, b) ==
  LET Digits(n) == IF n >= 10 THEN <<n \div 10, n % 10>> ELSE <<n>>
      x == Digits(a)
      y == Digits(b)
  IN IF x[1] # y[1] THEN x[1] < y[1]
     ELSE IF Len(x) = 1 THEN TRUE
     ELSE IF Len(y) = 1 THEN FALSE
     ELSE x[2] <= y[2]

\* Limit 1 with ScanIndexForward false: the item with the largest sort key
\* (accessToken).
LastBySortKey(items) ==
  CHOOSE i \in items : \A j \in items : SortKeyLeq(j.accessToken, i.accessToken)

\* The query of getRefreshTokenByAccessToken on AccessTokenIndex.
QueryByAccessToken(table, accessToken) == {i \in table : i.accessToken = accessToken}

\* TokenPersistenceService._updateCache
UpdateCache(cache, accessToken, refreshToken) ==
  IF ~enabled THEN cache
  ELSE LET c == MapSet(cache, [key |-> accessToken, value |-> refreshToken])
       IN IF Len(c) > MaxSize THEN Tail(c) ELSE c

\* Rejections met inside the refresh: a DynamoDB failure, a failed token exchange,
\* and the TypeError of calling something that is not a function.
StoreError == [kind |-> "store", n |-> -1, status |-> -1]
ExchangeError == [kind |-> "exchange", n |-> -1, status |-> -1]
NotAFunction == [kind |-> "TypeError", n |-> -1, status |-> -1]

\* The response resolved by the n-th invocation of apiCallFn.
Response(n) == [kind |-> "response", n |-> n, status |-> 200]

\* What updatedApiCallFn returns: apiCallFn.toString() with the old token text
\* replaced, a string of source text.
SourceText == [kind |-> "sourceText", n |-> -1, status |-> -1]

\* Methods reachable through the exported "new CacheService()". makeKey is
\* declared static, so the instance does not have it.
InstanceMethods ==
  {"_setupCleanup", "_getCache", "set", "get", "has", "delete", "clear", "cleanup",
   "getOrSet", "_evictOne", "getStats", "size"}

\* An instance on which makeKey can be called.
MakeKeyCallable == FALSE

\* cacheService.makeKey(...) as TidalService calls it, on the instance.
MakeKeyThrows == "makeKey" \notin InstanceMethods

\* The namespace of every TidalService entry: CACHE_NS.
CACHE_NS == "tidal"

\* CacheService.makeKey(...args): the arguments as strings, joined by ':'.
RECURSIVE makeKey(_)
makeKey(args) ==
  IF Len(args) = 0 THEN ""
  ELSE IF Len(args) = 1 THEN args[1]
  ELSE args[1] \o ":" \o makeKey(Tail(args))

\* The text of access token a: the tokens of one issuer start with the same
\* characters, "eyJhbGciO" here, followed by the decimal digits of a.
TokenText(a) == "eyJhbGciO" \o ToString(a)

\* accessToken.substring(0, 10): the nine common characters and the first digit.
Substring10(a) == "eyJhbGciO" \o ToString(IF a >= 10 THEN a \div 10 ELSE a)

\* The cache keys of the per-user reads. getUserInfo keys by the whole token;
\* getFavorites, getUserPlaylists and getRecommendations key by
\* "userId || accessToken.substring(0, 10)".
UserInfoKey(accessToken) == makeKey(<<"userInfo", TokenText(accessToken)>>)

UserOrPrefix(userId, accessToken) ==
  IF userId # NoUser THEN userId ELSE Substring10(accessToken)

FavoritesKey(type, userId, accessToken) ==
  makeKey(<<"favorites", type, UserOrPrefix(userId, accessToken)>>)

UserPlaylistsKey(userId, accessToken) ==
  makeKey(<<"userPlaylists", UserOrPrefix(userId, accessToken)>>)

RecommendationsKey(userId, accessToken) ==
  makeKey(<<"recommendations", UserOrPrefix(userId, accessToken)>>)

\* The keys under which the reads made with access token a and no userId store
\* their results.
KeysDerivedFrom(a) ==
  {UserInfoKey(a), FavoritesKey("tracks", NoUser, a), UserPlaylistsKey(NoUser, a),
   RecommendationsKey(NoUser, a)}

\* The body of _clearTokenRelatedCache past its makeKey call, on the Map of
\* CACHE_NS: cacheService.delete(CACHE_NS, <the userInfo key>).
ClearTokenRelatedCache(cache, accessToken) ==
  MapDelete(cache, UserInfoKey(accessToken))

\* The refresh coordinator at rest. issued counts the token exchanges that
\* succeeded; saved lists, in order, the items saveTokens has put.
RfIdle ==
  [pc |-> "idle", userId |-> NoUser, accessToken |-> NoToken, apiCalls |-> <<>>,
   error |-> NoError, refreshToken |-> NoToken, newTokens |-> NoTokens,
   refreshError |-> NoError, result |-> NoError, table0 |-> {}, issued |-> 0,
   saved |-> <<>>]

\* A mutation of the inner catch block: it throws what it caught.
RefreshCatchRefreshError(error, refreshError) == refreshError

\* catch (refreshError) { ...; throw error; }
RefreshCatch(error, refreshError) == error

\* The call leaves through the inner catch block.
Caught(refreshError) ==
  [rf EXCEPT !.pc = "thrown", !.refreshError = refreshError,
             !.result = RefreshCatch(rf.error, refreshError)]

\* Access tokens a caller can hold: none, one it started with, or one issued by
\* an earlier refresh.
HeldTokens == {NoToken} \cup AccessTokens \cup {NewTokens(k).access_token : k \in 1..rf.issued}

\* _executeWithTokenRefresh(apiCallFn, accessToken, userId) is entered; table0
\* remembers the table as the call found it.
RfStart(userId, accessToken) ==
  /\ rf.pc = "idle"
  /\ accessToken \in HeldTokens
  /\ rf' = [RfIdle EXCEPT !.pc = "apiCall", !.userId = userId,
                          !.accessToken = accessToken, !.table0 = tokenTable,
                          !.issued = rf.issued, !.saved = rf.saved]
  /\ UNCHANGED <<tokenTable, tokenCache, retryVars, cacheVars, playbackVars>>

\* A test that refreshes after any rejection of a call made with a token.
PropagatesWithoutToken(status, accessToken) == accessToken = NoToken

\* if (!error.response || error.response.status !== 401 || !accessToken) throw error
\* status 0 is an error without response.
Propagates(status, accessToken) ==
  status = 0 \/ status # 401 \/ accessToken = NoToken

\* A lookup that starts at the access-token index whatever userId is.
FirstLookupByAccessToken(userId) == "getRefreshTokenByAccessToken"

\* "if (userId) { tokens = await getTokensByUserId(userId) ... }" and
\* "if (!refreshToken) refreshToken = await getRefreshTokenByAccessToken(...)":
\* the lookup the refresh starts with.
FirstLookup(userId) ==
  IF userId # NoUser THEN "getTokensByUserId" ELSE "getRefreshTokenByAccessToken"

\* "return await apiCallFn()" and, on rejection, the test at the head of the
\* outer catch block. apiCallFn closes over accessToken.
RfApiCall(status) ==
  /\ rf.pc = "apiCall"
  /\ LET n     == Len(rf.apiCalls)
         r1    == [rf EXCEPT !.apiCalls = Append(@, rf.accessToken)]
         error == SendError(n, status)
     IN IF status = 200
          THEN rf' = [r1 EXCEPT !.pc = "returned", !.result = Response(n)]
          ELSE IF Propagates(status, rf.accessToken)
            THEN rf' = [r1 EXCEPT !.pc = "thrown", !.error = error, !.result = error]
            ELSE rf' = [r1 EXCEPT !.error = error, !.pc = FirstLookup(rf.userId)]
  /\ UNCHANGED <<tokenTable, tokenCache, retryVars, cacheVars, playbackVars>>

\* "await tokenPersistenceService.getTokensByUserId(userId)"; ok is whether the
\* DynamoDB query succeeds.
RfGetTokensByUserId(ok) ==
  /\ rf.pc = "getTokensByUserId"
  /\ LET items == QueryByUserId(tokenTable, rf.userId)
     IN IF ~ok
          THEN /\ rf' = Caught(StoreError)
               /\ UNCHANGED tokenCache
          ELSE IF items = {}
            THEN /\ rf' = [rf EXCEPT !.pc = "getRefreshTokenByAccessToken"]
                 /\ UNCHANGED tokenCache
            ELSE LET tokenData == LastBySortKey(items)
                 IN /\ tokenCache' = UpdateCache(tokenCache, tokenData.accessToken,
                                                 tokenData.refreshToken)
                    /\ rf' = IF tokenData.refreshToken # NoToken
                               THEN [rf EXCEPT !.pc = "refreshAccessToken",
                                               !.refreshToken = tokenData.refreshToken]
                               ELSE [rf EXCEPT !.pc = "getRefreshTokenByAccessToken"]
  /\ UNCHANGED <<tokenTable, retryVars, cacheVars, playbackVars>>

\* "await tokenPersistenceService.getRefreshTokenByAccessToken(accessToken)" and
\* the "if (!refreshToken) throw error" after it. A cached pair answers without a
\* query; the index query returns any one item carrying the access token.
RfGetRefreshTokenByAccessToken(ok) ==
  /\ rf.pc = "getRefreshTokenByAccessToken"
  /\ LET i     == IndexOf(tokenCache, rf.accessToken)
         items == QueryByAccessToken(tokenTable, rf.accessToken)
     IN IF enabled /\ i # 0
          THEN /\ ok
               /\ rf' = [rf EXCEPT !.pc = "refreshAccessToken",
                                   !.refreshToken = tokenCache[i].value]
               /\ UNCHANGED tokenCache
          ELSE IF ~ok
            THEN /\ rf' = Caught(StoreError)
                 /\ UNCHANGED tokenCache
            ELSE IF items = {}
              THEN /\ rf' = Caught(rf.error)
                   /\ UNCHANGED tokenCache
              ELSE \E item \in items :
                     /\ tokenCache' = UpdateCache(tokenCache, rf.accessToken,
                                                  item.refreshToken)
                     /\ rf' = [rf EXCEPT !.pc = "refreshAccessToken",
                                         !.refreshToken = item.refreshToken]
  /\ UNCHANGED <<tokenTable, retryVars, cacheVars, playbackVars>>

\* "await tidalApi.refreshAccessToken(refreshToken)"
RfRefreshAccessToken(ok) ==
  /\ rf.pc = "refreshAccessToken"
  /\ IF ok
       THEN /\ rf.issued < MaxRefreshes
            /\ rf' = [rf EXCEPT !.newTokens = NewTokens(rf.issued + 1),
                                !.issued = @ + 1,
                                !.pc = IF rf.userId # NoUser THEN "deleteTokens"
                                                            ELSE "saveTokens"]
       ELSE rf' = Caught(ExchangeError)
  /\ UNCHANGED <<tokenTable, tokenCache, retryVars, cacheVars, playbackVars>>

\* updateTokens up to "return this.saveTokens(...)": deleteTokens(userId,
\* oldAccessToken).
RfDeleteTokens(ok) ==
  /\ rf.pc = "deleteTokens"
  /\ IF ok
       THEN /\ tokenTable' = DeleteItem(tokenTable, rf.userId, rf.accessToken)
            /\ tokenCache' = IF enabled THEN MapDelete(tokenCache, rf.accessToken)
                                        ELSE tokenCache
            /\ rf' = [rf EXCEPT !.pc = "saveTokens"]
       ELSE /\ rf' = Caught(StoreError)
            /\ UNCHANGED <<tokenTable, tokenCache>>
  /\ UNCHANGED <<retryVars, cacheVars, playbackVars>>

\* saveTokens(userId or 'anonymous', new pair) and the rest of the try block:
\* _clearTokenRelatedCache(accessToken), which evaluates cacheService.makeKey(...)
\* as the argument of cacheService.delete and so throws before anything is
\* deleted, then "return await updatedApiCallFn()".
RfSaveTokens(ok) ==
  /\ rf.pc = "saveTokens"
  /\ IF ok
       THEN /\ tokenTable' = PutItem(tokenTable,
                                     TokenItem(IF rf.userId # NoUser THEN rf.userId
                                                                     ELSE Anonymous,
                                               rf.newTokens.access_token,
                                               rf.newTokens.refresh_token))
            /\ tokenCache' = UpdateCache(tokenCache, rf.newTokens.access_token,
                                         rf.newTokens.refresh_token)
            /\ rf' = [(IF MakeKeyThrows
                         THEN Caught(NotAFunction)
                         ELSE [rf EXCEPT !.pc = "returned", !.result = SourceText])
                       EXCEPT !.saved =
                         Append(@, TokenItem(IF rf.userId # NoUser THEN rf.userId
                                                                   ELSE Anonymous,
                                             rf.newTokens.access_token,
                                             rf.newTokens.refresh_token))]
            /\ caches' = IF MakeKeyThrows \/ ~enabled
                           THEN caches
                           ELSE [caches EXCEPT ![CACHE_NS] =
                                   ClearTokenRelatedCache(@, rf.accessToken)]
       ELSE /\ rf' = Caught(StoreError)
            /\ UNCHANGED <<tokenTable, tokenCache, caches>>
  /\ UNCHANGED <<now, enabled, calls, lastOp, retryVars, playbackVars>>

\* The caller has its answer; the service is ready for the next call.
RfDone ==
  /\ rf.pc \in {"returned", "thrown"}
  /\ rf' = [RfIdle EXCEPT !.issued = rf.issued, !.saved = rf.saved]
  /\ UNCHANGED <<tokenTable, tokenCache, retryVars, cacheVars, playbackVars>>

RefreshNext ==
  \/ \E u \in Users \cup {NoUser} :
       \E a \in {NoToken} \cup AccessTokens
                 \cup {NewTokens(k).access_token : k \in 1..MaxRefreshes} : RfStart(u, a)
  \/ \E s \in {200, 401, 403, 0} : RfApiCall(s)
  \/ \E ok \in BOOLEAN : RfGetTokensByUserId(ok)
  \/ \E ok \in BOOLEAN : RfGetRefreshTokenByAccessToken(ok)
  \/ \E ok \in BOOLEAN : RfRefreshAccessToken(ok)
  \/ \E ok \in BOOLEAN : RfDeleteTokens(ok)
  \/ \E ok \in BOOLEAN : RfSaveTokens(ok)
  \/ RfDone

\* The refresh coordinator next to a cache that holds results of per-user
\* reads made with access token 1 and no userId, stored under the keys of
\* getUserInfo, getFavorites, getUserPlaylists and getRecommendations.
InvalidateNext ==
  \/ \E key \in KeysDerivedFrom(1) : Set(CACHE_NS, key, "v1", DefaultTTL)
  \/ RefreshNext

(***************************************************************************)
(* Playback state store (PlaybackPersistenceService) and the handlers that *)
(* use it (PlayMusicIntentHandler, AudioPlayerEventHandler)                *)
(***************************************************************************)

\* Last instant of the playback clock.
MaxClock == 1

\* 60 * 60 * 1000: the age, in milliseconds, below which ResumeIntentHandler
\* takes a stored URL as valid.
UrlValidityMs == 3600000

\* The instants of the playback clock as milliseconds: two instants are the same
\* millisecond or one validity window apart.
ClockMs(t) == t * UrlValidityMs

\* Tracks of the longest album, playlist or artist selection.
MaxTracks == 3

\* A property the object does not have (undefined).
Absent == -1

\* simplifiedTrackList of a context with L tracks, as the track ids.
Tracks(L) == [k \in 1..L |-> 100 + k]

\* The tokens AudioPlayer requests carry: the tracks of the catalog's context.
TrackIds == {100 + k : k \in 1..catalog.tracks}

\* The manifest URL the API returns for a track.
StreamUrl(trackId) == 1000 + trackId

\* offsetInMilliseconds values a PlaybackStopped request carries.
Offsets == {30000}

\* The object {}: every property undefined. Of a stored state the model keeps
\* the properties the handlers read back and the ones PlaybackFailed adds.
\* urlAt is no stored property: it is the instant at which getStreamUrl
\* returned the stored url.
EmptyState ==
  [type |-> "", hasList |-> FALSE, trackList |-> <<>>, currentIndex |-> Absent,
   token |-> Absent, offset |-> Absent, isComplete |-> FALSE,
   error |-> "", errorType |-> "", errorTimestamp |-> Absent,
   pausedAt |-> Absent, url |-> Absent, urlAt |-> Absent]

\* The newest item's state (Limit 1, ScanIndexForward false); the table is kept in
\* ascending order of its sort key, timestamp.
Latest(table) == table[Len(table)].state

\* savePlaybackState: putItem under (userId, timestamp = now.toISOString()), which
\* replaces an item written in the same millisecond.
PutState(table, ts, state) ==
  LET item == [timestamp |-> ts, state |-> state]
  IN IF table # <<>> /\ table[Len(table)].timestamp = ts
       THEN [table EXCEPT ![Len(table)] = item]
       ELSE Append(table, item)

\* The object savePlaylist and updatePlaylistIndex save.
PlaylistState(trackList, currentIndex) ==
  [EmptyState EXCEPT !.type = "playlist", !.hasList = TRUE, !.trackList = trackList,
                     !.currentIndex = currentIndex]

\* A getPlaylist that reports the list from its start, whatever index is stored.
GetPlaylistFromStart(table) ==
  IF table = <<>> \/ Latest(table).type # "playlist"
    THEN [found |-> FALSE, trackList |-> <<>>, currentIndex |-> 0]
    ELSE [found |-> TRUE,
          trackList |-> IF Latest(table).hasList THEN Latest(table).trackList ELSE <<>>,
          currentIndex |-> 0]

\* getPlaylist: null (found = FALSE) unless the latest state has type 'playlist';
\* else { trackList: state.trackList || [], currentIndex: state.currentIndex || 0 }.
GetPlaylist(table) ==
  IF table = <<>> \/ Latest(table).type # "playlist"
    THEN [found |-> FALSE, trackList |-> <<>>, currentIndex |-> 0]
    ELSE [found |-> TRUE,
          trackList |-> IF Latest(table).hasList THEN Latest(table).trackList ELSE <<>>,
          currentIndex |-> IF Latest(table).currentIndex = Absent THEN 0
                           ELSE Latest(table).currentIndex]

\* updatePlaylistIndex: Math.max(0, Math.min(newIndex, length - 1)).
UpdatePlaylistIndexIn(table, ts, newIndex) ==
  LET playlist == GetPlaylist(table)
  IN IF ~playlist.found THEN table
     ELSE PutState(table, ts,
                   PlaylistState(playlist.trackList,
                                 Max(0, Min(newIndex, Len(playlist.trackList) - 1))))

\* An updateTrackState that always starts a new state from the updates.
UpdateTrackStateInFresh(table, ts, token, offset) ==
  IF table = <<>> THEN table
  ELSE PutState(table, ts, [EmptyState EXCEPT !.offset = offset, !.pausedAt = ts,
                                              !.token = token])

\* updateTrackState(userId, token, {offsetInMilliseconds, pausedAt})
UpdateTrackStateIn(table, ts, token, offset) ==
  IF table = <<>> THEN table
  ELSE IF Latest(table).token # token
    THEN PutState(table, ts, [EmptyState EXCEPT !.offset = offset, !.pausedAt = ts,
                                                !.token = token])
    ELSE PutState(table, ts, [Latest(table) EXCEPT !.offset = offset, !.pausedAt = ts])

\* updateTrackState(userId, trackId, {url, updatedAt})
UpdateTrackUrlIn(table, ts, token, url) ==
  IF table = <<>> THEN table
  ELSE IF Latest(table).token # token
    THEN PutState(table, ts, [EmptyState EXCEPT !.url = url, !.urlAt = ts,
                                                !.token = token])
    ELSE PutState(table, ts, [Latest(table) EXCEPT !.url = url, !.urlAt = ts])

\* updateTrackState(userId, token, {resumedAt})
UpdateResumedAtIn(table, ts, token) ==
  IF table = <<>> THEN table
  ELSE IF Latest(table).token # token
    THEN PutState(table, ts, [EmptyState EXCEPT !.token = token])
    ELSE PutState(table, ts, Latest(table))

\* The state the handler works with: the latest one, or {} when there is none
\* (AudioPlayer requests carry no session attributes).
PlaybackStateOf(table) == IF table = <<>> THEN EmptyState ELSE Latest(table)

\* response.data.manifest.url of the playback info of a track, as text.
UrlText(trackId) == "https://stream/" \o ToString(trackId)

\* The cache key of getStreamUrl: makeKey('streamUrl', trackId).
StreamUrlKey(trackId) == makeKey(<<"streamUrl", ToString(trackId)>>)

\* this.streamUrlTTL, in ticks of the cache clock: set to the default TTL.
StreamUrlTTL == DefaultTTL

\* new Error('No se pudo obtener la URL de streaming'): an Error without response.
NoManifestUrl == [kind |-> "Error", n |-> -1, status |-> -1]

\* _handleApiError(error).message
HandleApiError(error) ==
  IF error.kind # "http" THEN "Error de conexión con el servicio de Tidal"
  ELSE CASE error.status = 400 -> "Solicitud incorrecta a Tidal"
         [] error.status = 401 -> "Sesión expirada o no autorizada en Tidal"
         [] error.status = 403 -> "No tienes permiso para realizar esta acción en Tidal"
         [] error.status = 404 -> "El contenido solicitado no existe en Tidal"
         [] error.status = 429 -> "Demasiadas solicitudes a Tidal. Intenta más tarde"
         [] OTHER -> "Error del servicio de Tidal: " \o ToString(error.status)

\* The body of getStreamUrl past the cache: GET /tracks/{trackId}/playbackinfo
\* answered with status (0: no response; a 401 is one the refresh coordinator
\* cannot refresh and rethrows, every other error status passes through it) and,
\* on 200, with or without manifest.url. The URL, or the error thrown.
FetchStreamUrl(trackId, status, hasUrl) ==
  IF status # 200 THEN [ok |-> FALSE, url |-> "", error |-> SendError(0, status)]
  ELSE IF ~hasUrl THEN [ok |-> FALSE, url |-> "", error |-> NoManifestUrl]
  ELSE [ok |-> TRUE, url |-> UrlText(trackId), error |-> NoError]

\* What a getStreamUrl call did: note is "api" when it called the remote API,
\* "cache" when the cache answered, "" when it did neither.
StreamUrlReturned(key, url, note) == OpAt("getStreamUrl", CACHE_NS, key, url, note)

StreamUrlThrown(key, error, note) ==
  OpAt("getStreamUrlThrow", CACHE_NS, key, HandleApiError(error), note)

\* TidalService.getStreamUrl(accessToken, trackId, userId). The current service
\* computes the cache key with cacheService.makeKey and goes through getOrSet;
\* the earlier one calls the API. status and hasUrl are what the API answers when
\* it is called.
GetStreamUrl(trackId, status, hasUrl) ==
  /\ trackId \in TrackIds
  /\ status # 200 => hasUrl
  /\ LET key     == StreamUrlKey(trackId)
         fetched == FetchStreamUrl(trackId, status, hasUrl)
         g       == GetIn(caches[CACHE_NS], key, now)
     IN IF catalog.service = "earlier"
          THEN /\ caches' = caches
               /\ lastOp' = IF fetched.ok THEN StreamUrlReturned(key, fetched.url, "api")
                                         ELSE StreamUrlThrown(key, fetched.error, "api")
          ELSE IF MakeKeyThrows
            THEN /\ caches' = caches
                 /\ lastOp' = StreamUrlThrown(key, NotAFunction, "")
            ELSE IF enabled /\ g.value # Undefined
              THEN /\ caches' = [caches EXCEPT ![CACHE_NS] = g.cache]
                   /\ lastOp' = StreamUrlReturned(key, g.value, "cache")
              ELSE IF fetched.ok
                THEN /\ caches' = IF enabled
                                    THEN [caches EXCEPT ![CACHE_NS] =
                                            StoreFetched(g.cache, key, fetched.url,
                                                         StreamUrlTTL, now)]
                                    ELSE caches
                     /\ lastOp' = StreamUrlReturned(key, fetched.url, "api")
                ELSE /\ caches' = IF enabled THEN [caches EXCEPT ![CACHE_NS] = g.cache]
                                             ELSE caches
                     /\ lastOp' = StreamUrlThrown(key, fetched.error, "api")
  /\ UNCHANGED <<now, enabled, calls, retryVars, refreshVars, playbackVars>>

\* Whether a catalog read of TidalService resolves. The current service starts
\* every read with cacheService.makeKey(...); the earlier one goes to the API.
CatalogReadResolves(apiOk) ==
  IF catalog.service = "current" THEN ~MakeKeyThrows /\ apiOk ELSE apiOk

NoDirective == [url |-> Absent, token |-> Absent, offset |-> Absent]

\* addAudioPlayerPlayDirective('REPLACE_ALL', url, token, offset, ...)
PlayDirective(url, token, offset) == [url |-> url, token |-> token, offset |-> offset]

\* The handled request and its response. playL and playK follow an explicit play
\* of a context with playL tracks and the playK PlaybackFinished requests since;
\* both return to 0 with the playL-th such request. token is request.token of a
\* PlaybackFinished request; resolved is whether a ResumeIntent called
\* getStreamUrl.
Ev(request, directive, speech, playL, playK) ==
  [request |-> request, directive |-> directive, speech |-> speech,
   playL |-> playL, playK |-> playK, token |-> Absent, resolved |-> FALSE]

\* The record of a handled PlaybackFinished request.
FinishedEv(token, directive, playL, playK) ==
  [Ev("PlaybackFinished", directive, "", playL, playK) EXCEPT !.token = token]

\* Time passes between requests.
PbTick ==
  /\ pbClock < MaxClock
  /\ pbClock' = pbClock + 1
  /\ UNCHANGED <<playbackTable, pbEv, catalog, retryVars, cacheVars, refreshVars>>

\* savePlaylist(userId, trackList, currentIndex) called on the service.
SavePlaylist(L, currentIndex) ==
  /\ L \in {0, catalog.tracks}
  /\ currentIndex < L \/ currentIndex = 0
  /\ playbackTable' = PutState(playbackTable, pbClock,
                               PlaylistState(Tracks(L), currentIndex))
  /\ pbEv' = Ev("savePlaylist", NoDirective, "", 0, 0)
  /\ UNCHANGED <<pbClock, catalog, retryVars, cacheVars, refreshVars>>

\* updatePlaylistIndex(userId, newIndex) called on the service.
UpdatePlaylistIndex(newIndex) ==
  /\ playbackTable' = UpdatePlaylistIndexIn(playbackTable, pbClock, newIndex)
  /\ pbEv' = Ev("updatePlaylistIndex", NoDirective, "", 0, 0)
  /\ UNCHANGED <<pbClock, catalog, retryVars, cacheVars, refreshVars>>

\* savePlaybackState(userId, state) called on the service with a state that
\* carries the playlist together with the playing track's token.
SavePlaybackState(L, currentIndex) ==
  /\ L = catalog.tracks
  /\ currentIndex < L
  /\ playbackTable' =
       PutState(playbackTable, pbClock,
                [PlaylistState(Tracks(L), currentIndex) EXCEPT
                   !.token = Tracks(L)[currentIndex + 1], !.offset = 0])
  /\ pbEv' = Ev("savePlaybackState", NoDirective, "", 0, 0)
  /\ UNCHANGED <<pbClock, catalog, retryVars, cacheVars, refreshVars>>

\* PlayMusicIntentHandler.handle for a song (kind "track") or an album, playlist
\* or artist with L tracks. apiOk is whether the API answers the catalog reads;
\* dt is the time between savePlaylist and savePlaybackState. An input the taken
\* branch does not read is held at one value.
PlayMusicIntent(kind, L, hasAccessToken, apiOk, dt) ==
  /\ L = catalog.tracks
  /\ pbClock + dt <= MaxClock
  /\ IF ~hasAccessToken
       THEN /\ dt = 0 /\ apiOk /\ kind = "track"
            /\ pbEv' = Ev("PlayMusicIntent", NoDirective, "link", 0, 0)
            /\ UNCHANGED <<playbackTable, pbClock>>
       ELSE IF ~CatalogReadResolves(apiOk)
         THEN /\ dt = 0
              /\ pbEv' = Ev("PlayMusicIntent", NoDirective, "error", 0, 0)
              /\ UNCHANGED <<playbackTable, pbClock>>
         ELSE LET first == Tracks(L)[1]
                  state == [EmptyState EXCEPT !.type = kind, !.offset = 0,
                                              !.token = first,
                                              !.url = StreamUrl(first),
                                              !.urlAt = pbClock,
                                              !.currentIndex =
                                                 IF kind = "track" THEN Absent ELSE 0]
              IN IF kind = "track"
                   THEN /\ dt = 0
                        /\ playbackTable' = PutState(playbackTable, pbClock, state)
                        /\ pbClock' = pbClock
                        /\ pbEv' = Ev("PlayMusicIntent",
                                      PlayDirective(StreamUrl(first), first, 0),
                                      "playing", 0, 0)
                   ELSE /\ playbackTable' =
                             PutState(PutState(playbackTable, pbClock,
                                               PlaylistState(Tracks(L), 0)),
                                      pbClock + dt, state)
                        /\ pbClock' = pbClock + dt
                        /\ pbEv' = Ev("PlayMusicIntent",
                                      PlayDirective(StreamUrl(first), first, 0),
                                      "playing", L, 0)
  /\ UNCHANGED <<catalog, retryVars, cacheVars, refreshVars>>

\* AudioPlayer.PlaybackStarted and AudioPlayer.PlaybackNearlyFinished: logged only.
PlaybackStarted(token) ==
  /\ token \in TrackIds
  /\ pbEv' = Ev("PlaybackStarted", NoDirective, "", pbEv.playL, pbEv.playK)
  /\ UNCHANGED <<playbackTable, pbClock, catalog, retryVars, cacheVars, refreshVars>>

\* An error state that already points at the track that could not be played.
AdvanceErrorStateAtNext(playbackState, ts) ==
  [playbackState EXCEPT !.error = "No se pudo reproducir la siguiente pista",
                        !.errorTimestamp = ts,
                        !.currentIndex = IF @ = Absent THEN 1 ELSE @ + 1]

\* { ...playbackState, error: 'No se pudo reproducir la siguiente pista',
\*   errorTimestamp }
AdvanceErrorState(playbackState, ts) ==
  [playbackState EXCEPT !.error = "No se pudo reproducir la siguiente pista",
                        !.errorTimestamp = ts]

\* AudioPlayer.PlaybackFinished. The request token is logged and not compared
\* with anything. dt is the time between updatePlaylistIndex and
\* savePlaybackState. An input the taken branch does not read is held at one
\* value.
PlaybackFinished(token, hasAccessToken, apiOk, dt) ==
  /\ token \in TrackIds
  /\ pbClock + dt <= MaxClock
  /\ LET playbackState == PlaybackStateOf(playbackTable)
         playlist      == GetPlaylist(playbackTable)
         more          == pbEv.playK + 1 < pbEv.playL
         playL         == IF more THEN pbEv.playL ELSE 0
         playK         == IF more THEN pbEv.playK + 1 ELSE 0
     IN IF playlist.found /\ playlist.currentIndex < Len(playlist.trackList) - 1
          THEN IF ~hasAccessToken
            THEN /\ dt = 0 /\ apiOk
                 /\ pbEv' = FinishedEv(token, NoDirective, playL, playK)
                 /\ UNCHANGED <<playbackTable, pbClock>>
            ELSE LET nextIndex == playlist.currentIndex + 1
                     nextTrack == playlist.trackList[nextIndex + 1]
                 IN IF CatalogReadResolves(apiOk)
                      THEN /\ playbackTable' =
                                PutState(UpdatePlaylistIndexIn(playbackTable, pbClock,
                                                               nextIndex),
                                         pbClock + dt,
                                         [EmptyState EXCEPT
                                            !.type = IF playbackState.type # ""
                                                       THEN playbackState.type
                                                       ELSE "playlist",
                                            !.offset = 0, !.token = nextTrack,
                                            !.currentIndex = nextIndex,
                                            !.url = StreamUrl(nextTrack),
                                            !.urlAt = pbClock])
                           /\ pbClock' = pbClock + dt
                           /\ pbEv' = FinishedEv(token,
                                                 PlayDirective(StreamUrl(nextTrack),
                                                               nextTrack, 0),
                                                 playL, playK)
                      ELSE /\ dt = 0
                           /\ playbackTable' =
                                PutState(playbackTable, pbClock,
                                         AdvanceErrorState(playbackState, pbClock))
                           /\ pbClock' = pbClock
                           /\ pbEv' = FinishedEv(token, NoDirective, playL, playK)
          ELSE /\ dt = 0 /\ apiOk /\ hasAccessToken
               /\ playbackTable' = PutState(playbackTable, pbClock,
                                            [playbackState EXCEPT !.isComplete = TRUE])
               /\ pbClock' = pbClock
               /\ pbEv' = FinishedEv(token, NoDirective, playL, playK)
  /\ UNCHANGED <<catalog, retryVars, cacheVars, refreshVars>>

\* AudioPlayer.PlaybackStopped
PlaybackStopped(token, offset) ==
  /\ token \in TrackIds
  /\ playbackTable' = UpdateTrackStateIn(playbackTable, pbClock, token, offset)
  /\ pbEv' = Ev("PlaybackStopped", NoDirective, "", 0, 0)
  /\ UNCHANGED <<pbClock, catalog, retryVars, cacheVars, refreshVars>>

\* request.error of an AudioPlayer.PlaybackFailed request.
RequestError == [type |-> "MEDIA_ERROR_INTERNAL_DEVICE_ERROR",
                 message |-> "Player error occurred"]

\* A state that records the message and not the type of the error.
FailedStateMessageOnly(playbackState, error, ts) ==
  [playbackState EXCEPT !.error = error.message, !.errorTimestamp = ts]

\* { ...playbackState, error: errorMessage, errorType, errorTimestamp }
FailedState(playbackState, error, ts) ==
  [playbackState EXCEPT !.error = error.message, !.errorType = error.type,
                        !.errorTimestamp = ts]

\* AudioPlayer.PlaybackFailed
PlaybackFailed(token) ==
  /\ token \in TrackIds
  /\ playbackTable' = PutState(playbackTable, pbClock,
                               FailedState(PlaybackStateOf(playbackTable),
                                           RequestError, pbClock))
  /\ pbEv' = Ev("PlaybackFailed", NoDirective, "", 0, 0)
  /\ UNCHANGED <<pbClock, catalog, retryVars, cacheVars, refreshVars>>

\* A resume that always starts the track over.
ResumeOffsetZero(playbackState) == 0

\* offset = playbackState.offsetInMilliseconds || 0
ResumeOffset(playbackState) ==
  IF playbackState.offset = Absent THEN 0 ELSE playbackState.offset

\* urlIsValid = pausedAt && ((new Date() - pausedAt) < 60 * 60 * 1000)
UrlIsValid(playbackState, t) ==
  /\ playbackState.pausedAt # Absent
  /\ ClockMs(t) - ClockMs(playbackState.pausedAt) < UrlValidityMs

\* The track to resume: playbackState.trackId (the token, in every state that has
\* one), else playbackState.token, else trackList[currentIndex].id; Absent when
\* the handler throws instead, for want of any of them or of a list element at
\* currentIndex.
ResumeTrackId(playbackState) ==
  IF playbackState.token # Absent THEN playbackState.token
  ELSE IF /\ playbackState.hasList
          /\ playbackState.currentIndex # Absent
          /\ playbackState.currentIndex + 1 \in DOMAIN playbackState.trackList
    THEN playbackState.trackList[playbackState.currentIndex + 1]
    ELSE Absent

\* The record of a handled AMAZON.ResumeIntent request.
ResumeEv(directive, speech, resolved) ==
  [Ev("ResumeIntent", directive, speech, 0, 0) EXCEPT !.resolved = resolved]

\* ResumeIntentHandler.handle. apiOk is whether the API answers getStreamUrl; dt
\* is the time between the two updateTrackState calls. An input the taken branch
\* does not read is held at one value.
ResumeIntent(hasAccessToken, apiOk, dt) ==
  /\ pbClock + dt <= MaxClock
  /\ IF ~hasAccessToken
       THEN /\ dt = 0 /\ apiOk
            /\ pbEv' = ResumeEv(NoDirective, "link", FALSE)
            /\ UNCHANGED <<playbackTable, pbClock>>
       ELSE IF playbackTable = <<>>
         THEN /\ dt = 0 /\ apiOk
              /\ pbEv' = ResumeEv(NoDirective, "nothing to resume", FALSE)
              /\ UNCHANGED <<playbackTable, pbClock>>
         ELSE LET playbackState == Latest(playbackTable)
                  savedUrl      == playbackState.url
                  offset        == ResumeOffset(playbackState)
                  trackId       == ResumeTrackId(playbackState)
              IN IF savedUrl # Absent /\ UrlIsValid(playbackState, pbClock)
                   THEN /\ dt = 0 /\ apiOk
                        /\ playbackTable' = UpdateResumedAtIn(playbackTable, pbClock,
                                                              playbackState.token)
                        /\ pbClock' = pbClock
                        /\ pbEv' = ResumeEv(PlayDirective(savedUrl,
                                                          playbackState.token, offset),
                                            "resuming", FALSE)
                   ELSE IF trackId = Absent
                     THEN /\ dt = 0 /\ apiOk
                          /\ pbEv' = ResumeEv(NoDirective, "error", FALSE)
                          /\ UNCHANGED <<playbackTable, pbClock>>
                     ELSE IF ~CatalogReadResolves(apiOk)
                       THEN /\ dt = 0
                            /\ pbEv' = ResumeEv(NoDirective, "error", TRUE)
                            /\ UNCHANGED <<playbackTable, pbClock>>
                       ELSE /\ playbackTable' =
                                 UpdateResumedAtIn(
                                   UpdateTrackUrlIn(playbackTable, pbClock, trackId,
                                                    StreamUrl(trackId)),
                                   pbClock + dt, playbackState.token)
                            /\ pbClock' = pbClock + dt
                            /\ pbEv' = ResumeEv(PlayDirective(StreamUrl(trackId),
                                                              playbackState.token,
                                                              offset),
                                                "resuming", TRUE)
  /\ UNCHANGED <<catalog, retryVars, cacheVars, refreshVars>>

\* Tokens and track counts over all catalogs.
AllTrackIds == {100 + k : k \in 1..MaxTracks}

\* The skill as the device drives it: requests to play and AudioPlayer events, on
\* top of whatever state an earlier caller of savePlaybackState left.
PlaybackNext ==
  \/ PbTick
  \/ \E L \in 1..MaxTracks : \E i \in 0..(MaxTracks - 1) : SavePlaybackState(L, i)
  \/ \E kind \in {"track", "album", "playlist", "artist"} : \E L \in 1..MaxTracks :
       \E at \in BOOLEAN, ok \in BOOLEAN, dt \in {0, 1} :
         PlayMusicIntent(kind, L, at, ok, dt)
  \/ \E t \in AllTrackIds : PlaybackStarted(t)
  \/ \E t \in AllTrackIds : \E at \in BOOLEAN, ok \in BOOLEAN, dt \in {0, 1} :
       PlaybackFinished(t, at, ok, dt)

\* The playback store under its own operations and the events that patch the
\* latest state.
StoreNext ==
  \/ PbTick
  \/ \E L \in 0..MaxTracks : \E i \in 0..(MaxTracks - 1) : SavePlaylist(L, i)
  \/ \E i \in -1..MaxTracks : UpdatePlaylistIndex(i)
  \/ \E L \in 1..MaxTracks : \E i \in 0..(MaxTracks - 1) : SavePlaybackState(L, i)
  \/ \E t \in AllTrackIds : \E o \in Offsets : PlaybackStopped(t, o)
  \/ \E t \in AllTrackIds : PlaybackFailed(t)

\* Statuses the API answers a catalog read with; 0 stands for no response.
ApiStatuses == {200, 400, 401, 403, 404, 429, 503, 0}

\* The reads of TidalService that answer from the account of the access token.
PerUserReads == {"userInfo", "favorites", "userPlaylists", "recommendations"}

\* Access tokens of two accounts; their texts begin with the same ten characters.
PerUserTokens == {1, 11}

\* The cache key a per-user read computes.
PerUserKey(read, userId, accessToken) ==
  CASE read = "userInfo"      -> UserInfoKey(accessToken)
    [] read = "favorites"     -> FavoritesKey("tracks", userId, accessToken)
    [] read = "userPlaylists" -> UserPlaylistsKey(userId, accessToken)
    [] OTHER                  -> RecommendationsKey(userId, accessToken)

\* response.data of the API for a per-user read made with accessToken: data of
\* the account the token belongs to.
PerUserData(read, accessToken) == read \o " of " \o TokenText(accessToken)

\* getUserInfo, getFavorites, getUserPlaylists and getRecommendations
\* (accessToken, ..., userId). The current service computes the cache key with
\* cacheService.makeKey and goes through getOrSet, the earlier one calls the API;
\* status is what the API answers when it is called (a 401 is one the refresh
\* coordinator cannot refresh and rethrows).
GetPerUser(read, accessToken, userId, status) ==
  /\ LET key  == PerUserKey(read, userId, accessToken)
         data == PerUserData(read, accessToken)
         g    == GetIn(caches[CACHE_NS], key, now)
         Returned(value, note) == OpAt("perUserRead", CACHE_NS, key, value, note)
         Thrown(error, note) ==
           OpAt("perUserReadThrow", CACHE_NS, key, HandleApiError(error), note)
     IN IF catalog.service = "earlier"
          THEN /\ caches' = caches
               /\ lastOp' = IF status = 200 THEN Returned(data, "api")
                                            ELSE Thrown(SendError(0, status), "api")
          ELSE IF MakeKeyThrows
            THEN /\ caches' = caches
                 /\ lastOp' = Thrown(NotAFunction, "")
            ELSE IF enabled /\ g.value # Undefined
              THEN /\ caches' = [caches EXCEPT ![CACHE_NS] = g.cache]
                   /\ lastOp' = Returned(g.value, "cache")
              ELSE IF status = 200
                THEN /\ caches' = IF enabled
                                    THEN [caches EXCEPT ![CACHE_NS] =
                                            StoreFetched(g.cache, key, data,
                                                         DefaultTTL, now)]
                                    ELSE caches
                     /\ lastOp' = Returned(data, "api")
                ELSE /\ caches' = IF enabled THEN [caches EXCEPT ![CACHE_NS] = g.cache]
                                             ELSE caches
                     /\ lastOp' = Thrown(SendError(0, status), "api")
  /\ UNCHANGED <<now, enabled, calls, retryVars, refreshVars, playbackVars>>

\* The keys of CACHE_TTL, the data types of the cached reads.
DataTypes == {"userInfo", "search", "tracks", "albums", "playlists", "artists",
              "streamUrl"}

\* clearCache called without a type
NoType == "null"

\* String.prototype.startsWith
StartsWith(s, prefix) ==
  Len(prefix) <= Len(s) /\ SubSeq(s, 1, Len(prefix)) = prefix

\* The names clearCache(type) would have to select: the cache keys of the type.
ClearedKeysOfType(type, cache) ==
  {cache[i].key : i \in {j \in 1..Len(cache) :
                           cache[j].key = type \/ StartsWith(cache[j].key, type \o ":")}}

\* The names clearCache(type) passes to cacheService.delete: those of CACHE_TTL
\* that are the type or begin with the type and a colon.
ClearedKeys(type) ==
  {key \in DataTypes : key = type \/ StartsWith(key, type \o ":")}

RECURSIVE DeleteAll(_, _)
DeleteAll(cache, keys) ==
  IF keys = {} THEN cache
  ELSE LET key == CHOOSE k \in keys : TRUE
       IN DeleteAll(MapDelete(cache, key), keys \ {key})

\* TidalService.clearCache(type)
ClearCache(type) ==
  /\ caches' = IF ~enabled THEN caches
               ELSE IF type # NoType
                 THEN [caches EXCEPT ![CACHE_NS] =
                         DeleteAll(@, ClearedKeys(type))]
                 ELSE [caches EXCEPT ![CACHE_NS] = <<>>]
  /\ lastOp' = OpAt("clearCache", CACHE_NS, type, "", "")
  /\ UNCHANGED <<now, enabled, calls, retryVars, refreshVars, playbackVars>>

\* Stream URL reads next to a cache that holds stream URLs, stored under the keys
\* getStreamUrl computes, and the maintenance intent that clears a data type.
CatalogNext ==
  \/ Tick
  \/ \E type \in DataTypes \cup {NoType} : ClearCache(type)
  \/ \E t \in AllTrackIds : Set(CACHE_NS, StreamUrlKey(t), UrlText(t), StreamUrlTTL)
  \/ \E t \in AllTrackIds : \E status \in ApiStatuses, hasUrl \in BOOLEAN :
       GetStreamUrl(t, status, hasUrl)

\* Per-user reads made with the access tokens of two accounts, with and without
\* a userId, next to a cache that holds user info and favorites stored under the
\* keys those reads compute for a call without userId.
PerUserNext ==
  \/ Tick
  \/ \E read \in {"userInfo", "favorites"} : \E a \in PerUserTokens :
       Set(CACHE_NS, PerUserKey(read, NoUser, a), PerUserData(read, a), DefaultTTL)
  \/ \E read \in PerUserReads : \E a \in PerUserTokens : \E u \in Users \cup {NoUser} :
       \E status \in {200, 401, 0} : GetPerUser(read, a, u, status)

\* A session of the skill: requests to play a song or an album and to resume, and
\* the AudioPlayer events that stop or fail the playing track.
ResumeNext ==
  \/ PbTick
  \/ \E kind \in {"track", "album"} : \E L \in 1..MaxTracks :
       \E at \in BOOLEAN, ok \in BOOLEAN, dt \in {0, 1} :
         PlayMusicIntent(kind, L, at, ok, dt)
  \/ \E t \in AllTrackIds : \E o \in Offsets : PlaybackStopped(t, o)
  \/ \E t \in AllTrackIds : PlaybackFailed(t)
  \/ \E at \in BOOLEAN, ok \in BOOLEAN, dt \in {0, 1} : ResumeIntent(at, ok, dt)

(***************************************************************************)
(* Specifications                                                          *)
(***************************************************************************)

\* The client is constructed with the retry section of the configuration.
InitRetry ==
  /\ rq \in {[RqIdle EXCEPT !.maxDelayMs = m] : m \in MaxDelayMsSettings}
  /\ now = 0
  /\ enabled = TRUE
  /\ caches = [ns \in Namespaces |-> <<>>]
  /\ calls = [c \in Callers |-> NoCall]
  /\ lastOp = Op("init", "")
  /\ tokenTable = {}
  /\ tokenCache = <<>>
  /\ rf = RfIdle
  /\ playbackTable = <<>>
  /\ pbClock = 0
  /\ pbEv = Ev("none", NoDirective, "", 0, 0)
  /\ catalog = [service |-> "current", tracks |-> 1]

\* cache.enabled is CACHE_ENABLED !== 'false' of the environment.
InitCache ==
  /\ rq = RqIdle
  /\ now = 0
  /\ enabled \in BOOLEAN
  /\ caches = [ns \in Namespaces |-> <<>>]
  /\ calls = [c \in Callers |-> NoCall]
  /\ lastOp = Op("init", "")
  /\ tokenTable = {}
  /\ tokenCache = <<>>
  /\ rf = RfIdle
  /\ playbackTable = <<>>
  /\ pbClock = 0
  /\ pbEv = Ev("none", NoDirective, "", 0, 0)
  /\ catalog = [service |-> "current", tracks |-> 1]

\* The cache service as constructed, with two callers.
InitOverlap ==
  /\ rq = RqIdle
  /\ now = 0
  /\ enabled \in BOOLEAN
  /\ caches = [ns \in Namespaces |-> <<>>]
  /\ calls = [c \in OverlapCallers |-> NoCall]
  /\ lastOp = Op("init", "")
  /\ tokenTable = {}
  /\ tokenCache = <<>>
  /\ rf = RfIdle
  /\ playbackTable = <<>>
  /\ pbClock = 0
  /\ pbEv = Ev("none", NoDirective, "", 0, 0)
  /\ catalog = [service |-> "current", tracks |-> 1]

\* A fresh process: the table holds what earlier sessions left, the in-memory
\* token cache is empty.
InitRefresh ==
  /\ rq = RqIdle
  /\ now = 0
  /\ enabled \in BOOLEAN
  /\ caches = [ns \in Namespaces |-> <<>>]
  /\ calls = [c \in Callers |-> NoCall]
  /\ lastOp = Op("init", "")
  /\ tokenTable \in SUBSET LinkedItems
  /\ tokenCache = <<>>
  /\ rf = RfIdle
  /\ playbackTable = <<>>
  /\ pbClock = 0
  /\ pbEv = Ev("none", NoDirective, "", 0, 0)
  /\ catalog = [service |-> "current", tracks |-> 1]

\* An empty cache in front of either TidalService.
InitPerUser ==
  /\ rq = RqIdle
  /\ now = 0
  /\ enabled = TRUE
  /\ caches = [ns \in Namespaces |-> <<>>]
  /\ calls = [c \in Callers |-> NoCall]
  /\ lastOp = Op("init", "")
  /\ tokenTable = {}
  /\ tokenCache = <<>>
  /\ rf = RfIdle
  /\ playbackTable = <<>>
  /\ pbClock = 0
  /\ pbEv = Ev("none", NoDirective, "", 0, 0)
  /\ catalog \in [service : {"current", "earlier"}, tracks : {1}]

\* No playback state yet; either TidalService may be the deployed one.
InitPlayback ==
  /\ rq = RqIdle
  /\ now = 0
  /\ enabled = TRUE
  /\ caches = [ns \in Namespaces |-> <<>>]
  /\ calls = [c \in Callers |-> NoCall]
  /\ lastOp = Op("init", "")
  /\ tokenTable = {}
  /\ tokenCache = <<>>
  /\ rf = RfIdle
  /\ playbackTable = <<>>
  /\ pbClock = 0
  /\ pbEv = Ev("none", NoDirective, "", 0, 0)
  /\ catalog \in [service : {"current", "earlier"}, tracks : 1..MaxTracks]

SpecRetry == InitRetry /\ [][RetryNext]_vars

\* Every send settles (each carries the axios timeout) and every setTimeout
\* callback of a backoff wait is run by the event loop.
SpecRetryLive ==
  /\ InitRetry
  /\ [][RetryNext]_vars
  /\ WF_vars(\E o \in SendOutcomes : RqSend(o))
  /\ WF_vars(RqWake)

SpecCache == InitCache /\ [][CacheNext]_vars

SpecMemo == InitCache /\ [][MemoNext]_vars

SpecFault == InitCache /\ [][FaultNext]_vars

SpecOverlap == InitOverlap /\ [][OverlapNext]_vars

SpecRefresh == InitRefresh /\ [][RefreshNext]_vars

SpecInvalidate == InitRefresh /\ [][InvalidateNext]_vars

SpecPlayback == InitPlayback /\ [][PlaybackNext]_vars

SpecStore == InitPlayback /\ [][StoreNext]_vars

SpecResume == InitPlayback /\ [][ResumeNext]_vars

SpecCatalog == InitPlayback /\ [][CatalogNext]_vars

SpecPerUser == InitPerUser /\ [][PerUserNext]_vars

(***************************************************************************)
(* Claims                                                                  *)
(***************************************************************************)

\* C7 (Cache TTL): a get that finds an entry whose expiresAt lies strictly in the
\* past returns undefined, whether or not cleanup has removed anything since.
CacheTTL ==
  [][\A ns \in Namespaces : \A key \in KeysOf(ns) :
       (Get(ns, key) /\ enabled /\ Met(caches[ns], key, now) = "past")
         => lastOp'.result = Undefined]_vars

\* A get has just met an expired entry that no cleanup had removed, and returned
\* undefined.
CacheTTLWitness ==
  /\ lastOp.op = "get"
  /\ lastOp.note = "past"
  /\ lastOp.result = Undefined

\* An entry of cache with the smallest createdAt.
IsOldest(cache, i) == \A j \in 1..Len(cache) : cache[i].createdAt <= cache[j].createdAt

\* C8 (Cache bound): every namespace holds at most maxSize entries, and a set into
\* a namespace holding exactly maxSize entries removes exactly one entry, one with
\* the smallest createdAt, and then inserts the new entry.
CacheBound ==
  [][/\ \A ns \in Namespaces : Len(caches'[ns]) <= MaxSize
     /\ \A ns \in Namespaces : \A key \in KeysOf(ns), ttl \in TTLs :
          (Set(ns, key, "v1", ttl) /\ enabled /\ Len(caches[ns]) = MaxSize)
            => \E i \in 1..Len(caches[ns]) :
                 /\ IsOldest(caches[ns], i)
                 /\ caches'[ns] = MapSet(MapDelete(caches[ns], caches[ns][i].key),
                                         CacheEntry(key, "v1", ttl, now))]_vars

\* C9 (no failure is cached): on a miss getOrSet calls fetchFn; when fetchFn
\* rejects, or resolves to undefined or null, getOrSet stores nothing and hands the
\* caller that outcome (the rejection as a throw); and when no other operation ran
\* meanwhile, the next getOrSet for the same key calls fetchFn again.
NoFailureCached ==
  [][/\ \A c \in Callers : \A key \in KeysOf("tidal") :
          (GetOrSetStart(c, "tidal", key, DefaultTTL)
             /\ Met(caches["tidal"], key, now) # "live")
            => lastOp'.op = "fetch"
     /\ \A c \in Callers : \A o \in {Undefined, Null, FetchError} :
          GetOrSetFinish(c, o)
            => /\ caches' = caches
               /\ lastOp'.result = o
               /\ (lastOp'.op = "getOrSetThrow") <=> (o = FetchError)
     /\ \A c \in Callers :
          ( /\ lastOp.op \in {"getOrSet", "getOrSetThrow"}
            /\ lastOp.result \in {Undefined, Null, FetchError}
            /\ lastOp.note = "quiet"
            /\ GetOrSetStart(c, lastOp.ns, lastOp.key, DefaultTTL) )
            => lastOp'.op = "fetch"]_vars

\* A getOrSet whose fetchFn rejected has thrown, nothing ran in between, and the
\* enabled cache holds no entry under its key.
NoFailureCachedWitness ==
  /\ enabled
  /\ lastOp.op = "getOrSetThrow"
  /\ lastOp.note = "quiet"
  /\ IndexOf(caches[lastOp.ns], lastOp.key) = 0

\* C10 (non-retryable classification): a send answered 400, 401, 403 or 404 is the
\* last send of the call; the call throws that send's error at once, with no wait
\* after it (one wait per earlier failed send, none more).
NonRetryableEndsCall ==
  \A i \in 1..Len(rq.sent) :
    rq.sent[i] \in {400, 401, 403, 404}
      => /\ i = Len(rq.sent)
         /\ rq.attempts = i
         /\ rq.pc = "thrown"
         /\ rq.result = SendError(i - 1, rq.sent[i])
         /\ Len(rq.waits) = i - 1

\* A call that could have retried got a 404 on its first send and threw after
\* that single send, without waiting.
NonRetryableWitness ==
  /\ rq.pc = "thrown"
  /\ rq.retries >= 2
  /\ rq.sent = <<404>>
  /\ rq.waits = <<>>

\* The statuses and the no-response outcome that requestWithRetry retries.
Retryable(outcome) == outcome \in {429, 503, 0}

\* C11 (bounded retries): whatever the sends answer, a call makes at most
\* `retries` sends and then ends (returns or throws); a call that has thrown
\* after nothing but retryable failures has made exactly `retries` sends.
BoundedRetries ==
  /\ [](/\ Len(rq.sent) <= rq.retries
        /\ rq.attempts = Len(rq.sent)
        /\ (rq.pc = "thrown" /\ \A i \in 1..Len(rq.sent) : Retryable(rq.sent[i]))
              => Len(rq.sent) = rq.retries)
  /\ (rq.pc \in {"sending", "waiting"}) ~> (rq.pc \in {"returned", "thrown"})

\* A call with three attempts gave up after three retryable failures.
BoundedRetriesWitness ==
  /\ rq.pc = "thrown"
  /\ rq.variant = "current"
  /\ rq.retries = 3
  /\ rq.sent = <<503, 0, 429>>

\* C12 (last error surfaced unchanged): a call that gives up after at least one
\* send, on a non-retryable status or with its attempts used up, throws the very
\* error object its last send rejected with: same kind, same status, raised by
\* that attempt and no earlier one.
LastErrorSurfaced ==
  (rq.pc = "thrown" /\ Len(rq.sent) >= 1)
    => rq.result = SendError(Len(rq.sent) - 1, rq.sent[Len(rq.sent)])

\* A call gave up on a 403 after a network failure and a 503: two different
\* earlier errors precede the one that is thrown.
LastErrorSurfacedWitness ==
  /\ rq.pc = "thrown"
  /\ rq.variant = "current"
  /\ rq.sent = <<0, 503, 403>>
  /\ rq.result.status = 403

\* C13 (backoff formula): in the client of tidalApiClient.js the n-th wait of a
\* call, the one after failed attempt n - 1, is d + j with
\* d = min(maxDelayMs, baseDelayMs * 2^(n-1)) and 0 <= j <= 0.2 * d (5 * j <= d),
\* so that no wait exceeds 1.2 * maxDelayMs; and no wait follows the last attempt.
BackoffFormula ==
  rq.variant = "current" =>
    /\ Len(rq.waits) <= Max(rq.retries - 1, 0)
    /\ \A n \in 1..Len(rq.waits) :
         LET d == Min(rq.maxDelayMs, BaseDelayMs * 2^(n - 1))
             j == rq.waits[n] - d
         IN /\ 0 <= j
            /\ 5 * j <= d
            /\ 5 * rq.waits[n] <= 6 * rq.maxDelayMs

\* A call of the client constructed with maxDelayMs = 1500 has waited three
\* times: once below the cap and twice at it, the last time with jitter.
BackoffFormulaWitness ==
  /\ rq.variant = "current"
  /\ rq.maxDelayMs = 1500
  /\ Len(rq.waits) = 3
  /\ rq.waits[1] < 1500
  /\ rq.waits[3] > 1500

\* C14 as claimed (strictly increasing waits): within one call, every wait is
\* strictly longer than the wait before it.
StrictlyIncreasingWaits ==
  \A n \in 1..(Len(rq.waits) - 1) : rq.waits[n] < rq.waits[n + 1]

\* C14 as amended: a wait is strictly longer than the wait before it whenever
\* its own doubled delay is not cut by the cap, baseDelayMs * 2^n <= maxDelayMs
\* (n the 0-indexed attempt it follows); from the first capped wait on, every
\* wait lies in [maxDelayMs, 1.2 * maxDelayMs).
IncreasingWaitsBelowCap ==
  \A n \in 1..(Len(rq.waits) - 1) :
    IF rq.variant = "earlier" \/ BaseDelayMs * 2^n <= rq.maxDelayMs
      THEN rq.waits[n] < rq.waits[n + 1]
      ELSE /\ rq.maxDelayMs <= rq.waits[n + 1]
           /\ 5 * rq.waits[n + 1] < 6 * rq.maxDelayMs

\* A call has waited three times: the second and third wait are both capped,
\* and the third is shorter than the second.
IncreasingWaitsWitness ==
  /\ rq.variant = "current"
  /\ Len(rq.waits) = 3
  /\ rq.waits[1] < rq.waits[2]
  /\ rq.waits[3] < rq.waits[2]

\* The token table holds an item of userId under accessToken.
HoldsPair(userId, accessToken) ==
  \E i \in tokenTable : i.userId = userId /\ i.accessToken = accessToken

\* C15 (atomic token rotation): from the moment updateTokens(userId, old, new
\* pair) is entered for a user whose old pair is in the table, and whatever step
\* of it fails, the table holds for that user exactly one of the old pair and
\* the new pair.
AtomicRotation ==
  (/\ rf.userId # NoUser
   /\ rf.newTokens # NoTokens
   /\ \E i \in rf.table0 : i.userId = rf.userId /\ i.accessToken = rf.accessToken)
    => (HoldsPair(rf.userId, rf.accessToken)
          # HoldsPair(rf.userId, rf.newTokens.access_token))

\* C16 (cache invalidation on refresh): once a call has refreshed its access
\* token A (the exchange returned a new pair and the pair is persisted), the
\* cache holds no entry under a key derived from A: not the userInfo entry keyed
\* by A, not the favorites, userPlaylists and recommendations entries keyed by
\* A's first ten characters.
NoEntryKeyedByOldToken ==
  (/\ rf.pc \in {"returned", "thrown"}
   /\ rf.newTokens # NoTokens
   /\ \E i \in tokenTable : i.accessToken = rf.newTokens.access_token)
    => \A key \in KeysDerivedFrom(rf.accessToken) : IndexOf(caches[CACHE_NS], key) = 0

\* The refresh path of a finished call: its first invocation was answered 401 with
\* an access token at hand, a refresh token was resolved and the exchange returned
\* a new pair, and no DynamoDB call failed.
RefreshSucceeded ==
  /\ rf.pc \in {"returned", "thrown"}
  /\ rf.error = SendError(0, 401)
  /\ rf.refreshToken # NoToken
  /\ rf.newTokens # NoTokens
  /\ rf.refreshError # StoreError

\* C1 (refresh-once): when the first invocation fails with 401, a refresh token is
\* resolvable and the exchange succeeds, apiCallFn is invoked exactly twice in all
\* and the new (access token, refresh token) pair is in the token store.
RefreshOnce ==
  RefreshSucceeded
    => /\ Len(rf.apiCalls) = 2
       /\ \E item \in tokenTable :
            /\ item.accessToken = rf.newTokens.access_token
            /\ item.refreshToken = rf.newTokens.refresh_token

\* C2 (retry carries the new token): on the successful-refresh path the call is
\* issued again with the new access token and the caller gets the response of
\* that second invocation.
RetriedWithNewToken ==
  RefreshSucceeded
    => /\ rf.pc = "returned"
       /\ rf.apiCalls = <<rf.accessToken, rf.newTokens.access_token>>
       /\ rf.result = Response(1)

\* C3 (refresh failure propagation): when the first invocation fails with 401 and
\* no new pair is obtained (no refresh token resolved, or the exchange failed), the
\* caller is thrown the error object of that first invocation, apiCallFn has been
\* invoked once, and the token table is as the call found it.
RefreshFailurePropagation ==
  ( /\ rf.pc \in {"returned", "thrown"}
    /\ rf.error = SendError(0, 401)
    /\ rf.newTokens = NoTokens )
    => /\ rf.pc = "thrown"
       /\ rf.result = SendError(0, 401)
       /\ Len(rf.apiCalls) = 1
       /\ tokenTable = rf.table0

\* A refresh token was resolved, the exchange failed, and the call has thrown the
\* 401 error of its first invocation.
RefreshFailureWitness ==
  /\ rf.pc = "thrown"
  /\ rf.refreshToken # NoToken
  /\ rf.refreshError = ExchangeError
  /\ rf.result = SendError(0, 401)
  /\ tokenTable # {}

\* C4 (playback advance): when the latest snapshot has a trackList of length L and
\* currentIndex i < L-1, a PlaybackFinished whose token is the snapshot's token
\* (sent with an access token, the API answering) leaves a newer latest snapshot
\* with currentIndex i+1 and token trackList[i+1].id, and answers with a play
\* directive for that track's stream URL at offset 0.
PlaybackAdvance ==
  [][\A t \in AllTrackIds : \A dt \in {0, 1} :
       ( /\ PlaybackFinished(t, TRUE, TRUE, dt)
         /\ playbackTable # <<>>
         /\ Latest(playbackTable).hasList
         /\ Latest(playbackTable).currentIndex >= 0
         /\ Latest(playbackTable).currentIndex < Len(Latest(playbackTable).trackList) - 1
         /\ Latest(playbackTable).token = t )
         => LET i    == Latest(playbackTable).currentIndex
                next == Latest(playbackTable).trackList[i + 2]
            IN /\ Latest(playbackTable').currentIndex = i + 1
               /\ Latest(playbackTable').token = next
               /\ pbEv'.directive = PlayDirective(StreamUrl(next), next, 0)]_vars

\* C5 (stale event ignored): a PlaybackFinished whose token differs from the token
\* of the latest snapshot changes nothing in the table and issues no play
\* directive.
StaleEventIgnored ==
  [][\A t \in AllTrackIds : \A at \in BOOLEAN, ok \in BOOLEAN, dt \in {0, 1} :
       ( /\ PlaybackFinished(t, at, ok, dt)
         /\ playbackTable # <<>>
         /\ Latest(playbackTable).token # Absent
         /\ Latest(playbackTable).token # t )
         => /\ playbackTable' = playbackTable
            /\ pbEv'.directive = NoDirective]_vars

\* C6 (automatic advance): after an explicit play of an album, playlist or artist
\* with L >= 2 tracks whose catalog reads succeeded, the k-th PlaybackFinished since
\* (token = the k-th track, API answering) advances currentIndex to k and plays
\* the next track while k < L, and the L-th marks the latest snapshot isComplete.
AutomaticAdvance ==
  [][\A t \in AllTrackIds : \A dt \in {0, 1} :
       ( /\ PlaybackFinished(t, TRUE, TRUE, dt)
         /\ pbEv.playL >= 2
         /\ t = Tracks(pbEv.playL)[pbEv.playK + 1] )
         => IF pbEv.playK + 1 < pbEv.playL
              THEN LET next == Tracks(pbEv.playL)[pbEv.playK + 2]
                   IN /\ Latest(playbackTable').currentIndex = pbEv.playK + 1
                      /\ pbEv'.directive = PlayDirective(StreamUrl(next), next, 0)
              ELSE /\ Latest(playbackTable').isComplete
                   /\ pbEv'.directive = NoDirective]_vars

IdempotentRedelivery ==
  [][\A ok \in BOOLEAN, dt \in {0, 1} :
       ( /\ pbEv.request = "PlaybackFinished"
         /\ playbackTable # <<>>
         /\ pbEv.directive # NoDirective \/ Latest(playbackTable).isComplete
         /\ PlaybackFinished(pbEv.token, TRUE, ok, dt) )
         => /\ Latest(playbackTable').currentIndex = Latest(playbackTable).currentIndex
            /\ Latest(playbackTable').isComplete = Latest(playbackTable).isComplete]_vars

\* C19 (snapshot index invariant): every stored snapshot that contains a
\* trackList has 0 <= currentIndex < trackList.length.
SnapshotIndexInvariant ==
  \A n \in 1..Len(playbackTable) :
    playbackTable[n].state.hasList
      => /\ 0 <= playbackTable[n].state.currentIndex
         /\ playbackTable[n].state.currentIndex < Len(playbackTable[n].state.trackList)

\* C20 (append-only log): every savePlaybackState call that succeeds adds one
\* record for the user and leaves every record written before it in place and
\* unmodified, at whatever time it is made.
AppendOnlyLog ==
  [][\A i \in 0..(MaxTracks - 1) :
       SavePlaybackState(catalog.tracks, i)
         => /\ Len(playbackTable') = Len(playbackTable) + 1
            /\ \A n \in 1..Len(playbackTable) : playbackTable'[n] = playbackTable[n]]_vars

\* C21 as claimed (Stopped patches only the offset): a PlaybackStopped with
\* offset o, whatever token it carries, makes the latest snapshot the former
\* latest one with its offset set to o and the pause time set, everything else
\* carried over.
StoppedPatchesOffset ==
  [][\A t \in AllTrackIds : \A o \in Offsets :
       (/\ pbEv'.request = "PlaybackStopped"
        /\ playbackTable # <<>>
        /\ PlaybackStopped(t, o))
         => Latest(playbackTable')
              = [Latest(playbackTable) EXCEPT !.offset = o, !.pausedAt = pbClock]]_vars

\* C21 as amended: a PlaybackStopped whose token is the latest snapshot's token
\* patches the offset and the pause time and carries everything else over; one
\* with another token writes a snapshot that holds the offset, the pause time
\* and the event's token and nothing of the former snapshot.
StoppedPatchesOffsetOfToken ==
  [][\A t \in AllTrackIds : \A o \in Offsets :
       (/\ pbEv'.request = "PlaybackStopped"
        /\ playbackTable # <<>>
        /\ PlaybackStopped(t, o))
         => Latest(playbackTable')
              = IF Latest(playbackTable).token = t
                  THEN [Latest(playbackTable) EXCEPT !.offset = o, !.pausedAt = pbClock]
                  ELSE [EmptyState EXCEPT !.offset = o, !.pausedAt = pbClock,
                                          !.token = t]]_vars

\* The track at index 1 of a list was stopped: the latest snapshot holds the
\* reported offset and still the list, the index and the track's token.
StoppedPatchesOffsetWitness ==
  /\ pbEv.request = "PlaybackStopped"
  /\ playbackTable # <<>>
  /\ Latest(playbackTable).offset = 30000
  /\ Latest(playbackTable).hasList
  /\ Latest(playbackTable).currentIndex = 1
  /\ Latest(playbackTable).token = Latest(playbackTable).trackList[2]

ResumeReusesYoungUrl ==
  [][(/\ pbEv'.request = "ResumeIntent"
      /\ playbackTable # <<>>
      /\ Latest(playbackTable).token # Absent
      /\ \E ok \in BOOLEAN, dt \in {0, 1} : ResumeIntent(TRUE, ok, dt))
       => LET S     == Latest(playbackTable)
              young == /\ S.url # Absent
                       /\ ClockMs(pbClock) - ClockMs(S.urlAt) < UrlValidityMs
          IN /\ pbEv'.resolved <=> ~young
             /\ young => pbEv'.directive.url = S.url]_vars

\* C24 (Resume plays at the stored offset): when the snapshot of an explicit play
\* has been patched by a PlaybackStopped request for its token with offset o, a
\* ResumeIntent request that follows with an access token, the stored URL still
\* valid or the API answering, plays the same token from offset exactly o.
ResumeAtStoredOffset ==
  [][\A ok \in BOOLEAN :
       (/\ pbEv'.request = "ResumeIntent"
        /\ pbEv.request = "PlaybackStopped"
        /\ playbackTable # <<>>
        /\ Latest(playbackTable).url # Absent
        /\ UrlIsValid(Latest(playbackTable), pbClock) \/ ok
        /\ \E dt \in {0, 1} : ResumeIntent(TRUE, ok, dt))
         => /\ pbEv'.directive.token = Latest(playbackTable).token
            /\ pbEv'.directive.offset = Latest(playbackTable).offset
            /\ pbEv'.directive.url = StreamUrl(Latest(playbackTable).token)
            /\ Latest(playbackTable).offset \in Offsets]_vars

\* An album was played, stopped at 30 s and resumed from there, after the stored
\* URL had stopped being valid.
ResumeAtStoredOffsetWitness ==
  /\ pbEv.request = "ResumeIntent"
  /\ pbEv.resolved
  /\ playbackTable # <<>>
  /\ Latest(playbackTable).type = "album"
  /\ pbEv.directive = PlayDirective(StreamUrl(Latest(playbackTable).token),
                                    Latest(playbackTable).token, 30000)

\* C25 (Finished and Failed are terminal): while the latest snapshot is marked
\* isComplete or carries an error, no request other than an explicit play is
\* answered with a play directive.
TerminalUntilNewPlay ==
  [][(/\ playbackTable # <<>>
      /\ Latest(playbackTable).isComplete \/ Latest(playbackTable).error # ""
      /\ pbEv'.request # "PlayMusicIntent")
       => pbEv'.directive = NoDirective]_vars

\* C26 (only 401 is intercepted): when the wrapped call is rejected with another
\* status or without a response, or no access token was supplied, the call ends
\* there: that error is thrown, the wrapped call was invoked once, and the token
\* table, the in-memory token cache, the catalog cache and the count of token
\* exchanges are as they were; no refresh token was looked up.
OnlyUnauthorizedIntercepted ==
  [][\A s \in {401, 403, 0} :
       (/\ rf.pc = "apiCall"
        /\ s # 401 \/ rf.accessToken = NoToken
        /\ RfApiCall(s))
         => /\ rf'.pc = "thrown"
            /\ rf'.result = SendError(0, s)
            /\ rf'.apiCalls = <<rf.accessToken>>
            /\ rf'.refreshToken = NoToken
            /\ rf'.newTokens = NoTokens
            /\ rf'.issued = rf.issued
            /\ UNCHANGED <<tokenTable, tokenCache, caches>>]_vars

\* A call made for a linked user with that user's stored access token was
\* rejected with 403 and has thrown.
OnlyUnauthorizedWitness ==
  /\ rf.pc = "thrown"
  /\ rf.result = SendError(0, 403)
  /\ rf.userId = "u1"
  /\ rf.accessToken # NoToken
  /\ \E i \in tokenTable : i.userId = rf.userId /\ i.accessToken = rf.accessToken
  /\ Len(rf.apiCalls) = 1

\* C27 (cache failures are absorbed): a set, get, has, delete, clear or cleanup
\* in which the bookkeeping throws returns to its caller: get returns undefined,
\* set the value it was given, and none of them the error. A getOrSet call in
\* which get or set throws that way still calls fetchFn and returns what fetchFn
\* resolved to.
FailuresAbsorbed ==
  /\ [][(/\ lastOp'.note = "caught"
         /\ lastOp'.op \in GuardedMethods
         /\ \E done \in BOOLEAN :
              Throws(lastOp'.op, "tidal", lastOp'.key, "v2", DefaultTTL, done))
          => /\ lastOp'.result # CacheError
             /\ lastOp'.op = "get" => lastOp'.result = Undefined
             /\ lastOp'.op = "set" => lastOp'.result = "v2"]_vars
  /\ [][\A c \in Callers :
          (/\ lastOp'.note = "caught"
           /\ calls[c].pc = "idle"
           /\ \E done \in BOOLEAN :
                GetOrSetGetThrows(c, "tidal", lastOp'.key, DefaultTTL, done))
            => calls'[c].pc = "fetching"]_vars
  /\ [][\A c \in Callers : \A o \in Values :
          (/\ lastOp'.note = "caught"
           /\ calls[c].pc = "fetching"
           /\ \E done \in BOOLEAN : GetOrSetSetThrows(c, o, done))
            => lastOp'.op = "getOrSet" /\ lastOp'.result = o]_vars

\* A getOrSet call has returned the value of fetchFn although the set that was
\* to store it threw: the namespace holds no entry for the key.
FailuresAbsorbedWitness ==
  /\ lastOp.op = "getOrSet"
  /\ lastOp.note = "caught"
  /\ lastOp.result = "v1"
  /\ IndexOf(caches[lastOp.ns], lastOp.key) = 0

\* The callers whose getOrSet call awaits fetchFn.
Fetching == {c \in DOMAIN calls : calls[c].pc = "fetching"}

\* The entries a Map holds under key.
EntriesOf(cache, key) == {i \in 1..Len(cache) : cache[i].key = key}

CacheFirstReads ==
  [][\A t \in AllTrackIds : \A status \in {200, 404, 503, 0} :
       (/\ lastOp'.key = StreamUrlKey(t)
        /\ \E hasUrl \in BOOLEAN : GetStreamUrl(t, status, hasUrl))
         => LET first == /\ lastOp.op = "getStreamUrl"
                         /\ lastOp.key = StreamUrlKey(t)
                         /\ lastOp.note = "api"
                live  == Met(caches[CACHE_NS], StreamUrlKey(t), now) = "live"
            IN /\ first \/ live
                 => /\ lastOp'.op = "getStreamUrl"
                    /\ lastOp'.note = "cache"
                    /\ lastOp'.result = UrlText(t)
               /\ ~first /\ ~live /\ GetStreamUrl(t, 200, TRUE)
                 => /\ lastOp'.op = "getStreamUrl"
                    /\ lastOp'.note = "api"
                    /\ lastOp'.result = UrlText(t)]_vars

\* C30 (no manifest URL): a getStreamUrl call that the cache does not answer and
\* that the API answers with status 200 and no manifest.url rejects with the
\* message 'No se pudo obtener la URL de streaming'.
NoManifestUrlMessage ==
  [][\A t \in AllTrackIds :
       (/\ lastOp'.key = StreamUrlKey(t)
        /\ Met(caches[CACHE_NS], StreamUrlKey(t), now) # "live"
        /\ GetStreamUrl(t, 200, FALSE))
         => /\ lastOp'.op = "getStreamUrlThrow"
            /\ lastOp'.result = "No se pudo obtener la URL de streaming"]_vars

\* C31 (error mapping of catalog reads): a catalog read that the cache does not
\* answer and whose API call fails rejects with the message of the failure: the
\* connection message when there is no response, the fixed message of 400, 401
\* (also when it is a 401 that could not be refreshed), 403, 404 or 429, and the
\* generic service message for any other status.
ErrorMapping ==
  [][\A s \in ApiStatuses \ {200} :
       (/\ lastOp'.op = "getStreamUrlThrow"
        /\ Met(caches[CACHE_NS], lastOp'.key, now) # "live"
        /\ \E t \in TrackIds : GetStreamUrl(t, s, TRUE))
         => lastOp'.result =
              CASE s = 0   -> "Error de conexión con el servicio de Tidal"
                [] s = 400 -> "Solicitud incorrecta a Tidal"
                [] s = 401 -> "Sesión expirada o no autorizada en Tidal"
                [] s = 403 -> "No tienes permiso para realizar esta acción en Tidal"
                [] s = 404 -> "El contenido solicitado no existe en Tidal"
                [] s = 429 -> "Demasiadas solicitudes a Tidal. Intenta más tarde"
                [] OTHER   -> "Error del servicio de Tidal: " \o ToString(s)]_vars

\* C32 (resolution order): after a 401 the refresh token is looked up by userId
\* first when a userId is given; getRefreshTokenByAccessToken is entered only
\* straight after the 401 of a call without userId, or after a lookup by userId
\* that found no refresh token; a lookup by userId that finds one goes on to the
\* token exchange with it.
ResolutionOrder ==
  [][LET items == QueryByUserId(tokenTable, rf.userId)
         found == items # {} /\ LastBySortKey(items).refreshToken # NoToken
     IN /\ (rf.pc = "apiCall" /\ rf'.pc \notin {"apiCall", "returned", "thrown"})
             => rf'.pc = IF rf.userId # NoUser THEN "getTokensByUserId"
                                               ELSE "getRefreshTokenByAccessToken"
        /\ (rf'.pc = "getRefreshTokenByAccessToken"
              /\ rf.pc # "getRefreshTokenByAccessToken")
             => \/ rf.pc = "apiCall" /\ rf.userId = NoUser
                \/ rf.pc = "getTokensByUserId" /\ ~found
        /\ (rf.pc = "getTokensByUserId" /\ found /\ rf'.pc # "thrown")
             => /\ rf'.pc = "refreshAccessToken"
                /\ rf'.refreshToken = LastBySortKey(items).refreshToken]_vars

\* The refresh token of a call made for u1 with access token 1 was found by
\* userId: it is the one of u1's record with the largest access token, not the
\* one stored with access token 1.
ResolutionOrderWitness ==
  /\ rf.pc = "refreshAccessToken"
  /\ rf.userId = "u1"
  /\ rf.accessToken = 1
  /\ rf.refreshToken = 102

\* The entries of all namespaces that cleanup is to remove at time t.
PastEntries(cs, t) ==
  {p \in Namespaces \X (1..(MaxSize + 2)) :
     p[2] <= Len(cs[p[1]]) /\ t > cs[p[1]][p[2]].expiresAt}

\* C33 (cleanup): with the cache enabled, cleanup leaves in every namespace
\* exactly the entries whose expiresAt has not passed, unchanged and in their
\* order, and returns the number of entries it removed.
CleanupSweeps ==
  [][(lastOp'.op = "cleanup" /\ lastOp'.note = "" /\ enabled /\ Cleanup)
       => /\ PastEntries(caches', now) = {}
          /\ \A ns \in Namespaces : \A i \in 1..Len(caches[ns]) :
               now <= caches[ns][i].expiresAt
                 => \E j \in 1..Len(caches'[ns]) : caches'[ns][j] = caches[ns][i]
          /\ \A ns \in Namespaces : Len(caches'[ns]) <= Len(caches[ns])
          /\ lastOp'.result = ToString(Cardinality(PastEntries(caches, now)))]_vars

\* cleanup has removed expired entries from both namespaces at once and left a
\* live one.
CleanupSweepsWitness ==
  /\ lastOp.op = "cleanup"
  /\ lastOp.result = "2"
  /\ Len(caches["tidal"]) = 1
  /\ now <= caches["tidal"][1].expiresAt

\* C35 (clearCache by type): clearCache(type) leaves no entry of the type in
\* the "tidal" namespace, neither under the type's name nor under a key that
\* begins with the type and a colon, and keeps every entry of another type.
ClearCacheByType ==
  [][(lastOp'.op = "clearCache" /\ lastOp'.key # NoType /\ ClearCache(lastOp'.key))
       => /\ ClearedKeysOfType(lastOp'.key, caches'[CACHE_NS]) = {}
          /\ \A i \in 1..Len(caches[CACHE_NS]) :
               caches[CACHE_NS][i].key \notin
                   ClearedKeysOfType(lastOp'.key, caches[CACHE_NS])
                 => IndexOf(caches'[CACHE_NS], caches[CACHE_NS][i].key) # 0]_vars

\* C36 (overwriting does not evict): a set on a key that the namespace already
\* holds removes no other key of that namespace, whatever the namespace's size.
OverwriteKeepsOthers ==
  [][\A ns \in Namespaces : \A key \in KeysOf(ns) : \A ttl \in TTLs :
       (/\ lastOp'.op = "set"
        /\ enabled
        /\ IndexOf(caches[ns], key) # 0
        /\ Set(ns, key, "v1", ttl))
         => \A i \in 1..Len(caches[ns]) :
              IndexOf(caches'[ns], caches[ns][i].key) # 0]_vars

\* The pair saved last for userId, if saveTokens has written one for it.
SavedFor(userId) == SelectSeq(rf.saved, LAMBDA item : item.userId = userId)

\* C34 (latest pair by user): when a pair has been saved for the user and is
\* still stored, getTokensByUserId hands the refresh the refresh token of the
\* pair saved last for that user, whatever access tokens the user's other
\* records carry.
LatestPairByUser ==
  [][(/\ rf.pc = "getTokensByUserId"
      /\ rf'.pc = "refreshAccessToken"
      /\ SavedFor(rf.userId) # <<>>
      /\ SavedFor(rf.userId)[Len(SavedFor(rf.userId))] \in tokenTable)
       => rf'.refreshToken =
            SavedFor(rf.userId)[Len(SavedFor(rf.userId))].refreshToken]_vars

\* C37 (at least one send): whatever retries value it is called with, a call of
\* requestWithRetry that has ended has sent at least once, and if it ended by
\* throwing, what it throws is the error one of its sends rejected with.
AtLeastOneSend ==
  rq.pc \in {"returned", "thrown"}
    => /\ Len(rq.sent) >= 1
       /\ rq.pc = "thrown"
            => \E n \in 1..Len(rq.sent) : rq.result = SendError(n - 1, rq.sent[n])

OneRecordAfterRefresh ==
  [][(/\ rf.pc = "saveTokens"
      /\ rf.userId # NoUser
      /\ Len(rf'.saved) = Len(rf.saved) + 1)
       => /\ QueryByUserId(tokenTable', rf.userId)
               = {TokenItem(rf.userId, rf.newTokens.access_token,
                            rf.newTokens.refresh_token)}
          /\ \A i \in QueryByUserId(tokenTable', rf.userId) :
               i.refreshToken # rf.refreshToken]_vars

====
